---- MODULE Spec2Model ----
(***************************************************************************)
(* Model of the client-side image optimization pipeline of evilpo:         *)
(*   - ImageOptimizationSystem (docs/js/image-optimization.js): format and *)
(*     quality selection, the lazy-load scheduler;                         *)
(*   - ImageOptimizationSW (src/js/performance-monitor.js): the service    *)
(*     worker's fetch handling, fallback chain, cache management and       *)
(*     activation; PerformanceMonitor: collected metrics and reporting;    *)
(*   - ImageOptimizationABTesting (docs/js/image-optimization.js): the     *)
(*     experiment assignments, the event queue and the persisted log.      *)
(***************************************************************************)
EXTENDS Integers, Sequences, FiniteSets, TLC

VARIABLES
    \* ---- ImageOptimizationSystem: selection state
    deviceCapabilities,   \* this.deviceCapabilities.connection {effectiveType, saveData}
    formatSupport,        \* this.formatSupport {avif, webp, jpg}
    abTestVariant,        \* this.abTestVariant: experiment -> variant ("undefined": null)
    result,               \* the value last returned by a selection call
    \* ---- ImageOptimizationSystem: dimensions
    viewport,             \* this.deviceCapabilities.viewport {width}
    devicePixelRatio,     \* this.deviceCapabilities.devicePixelRatio, in quarters
    descriptor,           \* the value last returned by optimizeImage
    \* ---- ImageOptimizationSystem: lazy-load scheduler
    lazyInit,             \* progress of the asynchronous init()
    connectivity,         \* "offline" between an 'offline' and the next 'online' event
    img,                  \* the image elements: attributes and position
    observed,             \* targets of this.intersectionObserver
    previousIsIntersecting, \* per target: the observer's last computed isIntersecting
    queuedEntries,        \* targets with an undelivered isIntersecting entry
    \* ---- ImageOptimizationSystem: the asynchronous init() and the public calls
    probes,               \* detectFormatSupport: the probes' outcomes, its promise
    intersectionObserver, \* this.intersectionObserver: "null" or "observer"
    called,               \* the last call of optimizeImage / createOptimizedImage
    \* ---- ImageOptimizationSW: Cache Storage and the cacheResponse flows
    caches,               \* cache name -> entries <<[request, contentLength, cachedAt]>>
    now,                  \* Date.now()
    flow,                 \* per concurrent cacheResponse call: its position and locals
    \* ---- ImageOptimizationSW: handling of a fetch event
    sw,                   \* the handleFetch call in progress: its position and locals
    clients,              \* self.clients.matchAll().length
    handled,              \* fetch events handled so far
    connectionType,       \* this.connectionType
    lastReported,         \* effectiveType of the last UPDATE_DEVICE_CAPABILITIES
    \* ---- ImageOptimizationSW: activation
    activation,           \* the cleanupOldCaches call: its position and locals
    \* ---- ImageOptimizationABTesting and the page's sessions
    localStorage,         \* ab_test_user_id, ab_test_assignments, ab_test_events
    abTesting,            \* this.userId, this.userAssignments, this.dataQueue
    sessions,             \* page loads so far
    sends,                \* the batches of the fetches of sendBatchedData in flight
    delivered,            \* events the analytics endpoint has accepted
    tracked,              \* events tracked so far; an event is written as its rank
    calls,                \* calls made on the instances after their construction
    \* ---- PerformanceMonitor: collected metrics and their reporting
    metrics,              \* this.metrics: name -> recorded entries
    imageMetrics,         \* this.imageMetrics: the sources holding an entry
    reports,              \* the payloads of the fetches of sendMetrics in flight
    recorded              \* entries recorded so far; an entry is written as its rank

selVars == <<deviceCapabilities, formatSupport, abTestVariant, result>>
dimVars == <<viewport, devicePixelRatio, descriptor>>
initVars == <<probes, intersectionObserver, called>>
lazyVars == <<lazyInit, connectivity, img, observed, previousIsIntersecting,
              queuedEntries>>

cacheVars == <<caches, now, flow>>

swVars == <<sw, clients, handled, connectionType, lastReported>>

abVars == <<localStorage, abTesting, sessions, sends, delivered, tracked, calls>>

pmVars == <<metrics, imageMetrics, reports, recorded>>

vars == <<selVars, dimVars, initVars, lazyVars, cacheVars, swVars, activation,
          abVars, pmVars>>

notSelVars == <<dimVars, initVars, lazyVars, cacheVars, swVars, activation,
                abVars, pmVars>>
notLazyVars == <<selVars, dimVars, initVars, cacheVars, swVars, activation,
                 abVars, pmVars>>
notCacheVars == <<selVars, dimVars, initVars, lazyVars, swVars, activation,
                  abVars, pmVars>>
notSwVars == <<selVars, dimVars, initVars, lazyVars, flow, activation, abVars,
               pmVars>>
notAbVars == <<deviceCapabilities, formatSupport, result, dimVars, initVars,
               lazyVars, cacheVars, swVars, activation, pmVars>>
notDimVars == <<formatSupport, abTestVariant, result, initVars, lazyVars,
                cacheVars, swVars, activation, abVars, pmVars>>
notInitVars == <<deviceCapabilities, abTestVariant, result, dimVars, connectivity,
                 previousIsIntersecting, queuedEntries, cacheVars, swVars,
                 activation, abVars, pmVars>>
notActivationVars == <<selVars, dimVars, initVars, lazyVars, now, flow, swVars,
                       abVars, pmVars>>
notPmVars == <<selVars, dimVars, initVars, lazyVars, cacheVars, swVars,
               activation, abVars>>

-----------------------------------------------------------------------------
(* Bounds *)

\* requested qualities range over -MaxNegQuality..MaxQuality
MaxQuality == 110
MaxNegQuality == 3

\* image elements of the page
MaxElements == 1
\* loads of one element that may be in flight together
MaxInFlight == 2
\* cacheResponse calls that may be in progress together
MaxFlows == 2
\* cacheResponse calls made in one run (each takes one tick of Date.now())
MaxPuts == 3
\* distinct request URLs
MaxKeys == 3
\* fetch events handled in one run
MaxRequests == 2
\* page loads in one run
MaxSessions == 3
\* days of Date.now() covered by one run
MaxDays == 9
\* requested widths and heights range over 1..MaxDimension, 400 and 1600
MaxDimension == 6
\* calls made on the A/B testing instances after their construction
MaxEvents == 4
\* entries recorded by the performance monitor in one run
MaxMetrics == 3
\* fetches of sendMetrics that may be in flight together
MaxReports == 2

-----------------------------------------------------------------------------
(* ImageOptimizationSystem: format and quality selection *)

EffectiveTypes == {"slow-2g", "2g", "3g", "4g", "unknown"}
FormatVariants == {"avif-first", "webp-first", "smart-detection"}
CompressionVariants == {"aggressive", "balanced", "quality-focused"}
Formats == {"avif", "webp", "jpg"}

\* a quality argument: a number, or none given (undefined)
RequestedQualities ==
    {[given |-> TRUE, value |-> q] : q \in (0 - MaxNegQuality)..MaxQuality}
        \cup {[given |-> FALSE, value |-> 0]}

\* this.abTestVariant?.[experiment] || dflt
variantOf(experiment, dflt) ==
    IF abTestVariant[experiment] = "undefined" THEN dflt
    ELSE abTestVariant[experiment]

selectOptimalFormat_noSaveData ==
    LET variant == variantOf("format-preference", "smart-detection") IN
    CASE variant = "avif-first" ->
           IF formatSupport.avif THEN "avif"
           ELSE IF formatSupport.webp THEN "webp" ELSE "jpg"
      [] variant = "webp-first" ->
           IF formatSupport.webp THEN "webp" ELSE "jpg"
      [] OTHER ->
           IF formatSupport.avif /\ deviceCapabilities.effectiveType # "slow-2g"
           THEN "avif"
           ELSE IF formatSupport.webp THEN "webp" ELSE "jpg"

selectOptimalFormat_avifOnSlow2g ==
    LET variant == variantOf("format-preference", "smart-detection") IN
    CASE variant = "avif-first" ->
           IF formatSupport.avif THEN "avif"
           ELSE IF formatSupport.webp THEN "webp" ELSE "jpg"
      [] variant = "webp-first" ->
           IF formatSupport.webp THEN "webp" ELSE "jpg"
      [] OTHER ->
           IF deviceCapabilities.saveData THEN "jpg"
           ELSE IF formatSupport.avif THEN "avif"
           ELSE IF formatSupport.webp THEN "webp" ELSE "jpg"

\* selectOptimalFormat(): the switch on the 'format-preference' variant; saveData
\* is read in the smart-detection (and default) case only
selectOptimalFormat ==
    LET variant == variantOf("format-preference", "smart-detection") IN
    CASE variant = "avif-first" ->
           IF formatSupport.avif THEN "avif"
           ELSE IF formatSupport.webp THEN "webp" ELSE "jpg"
      [] variant = "webp-first" ->
           IF formatSupport.webp THEN "webp" ELSE "jpg"
      [] OTHER ->
           IF deviceCapabilities.saveData THEN "jpg"
           ELSE IF formatSupport.avif /\ deviceCapabilities.effectiveType # "slow-2g"
           THEN "avif"
           ELSE IF formatSupport.webp THEN "webp" ELSE "jpg"

\* the variant multiplier, in tenths (aggressive 0.8, quality-focused 1.1)
variantTenths(variant) ==
    CASE variant = "aggressive" -> 8
      [] variant = "quality-focused" -> 11
      [] OTHER -> 10

\* the connection multiplier, in tenths (saveData 0.6, slow-2g 0.7, 2g 0.8, 3g 0.9)
connectionTenths(connection) ==
    IF connection.saveData THEN 6
    ELSE CASE connection.effectiveType = "slow-2g" -> 7
           [] connection.effectiveType = "2g" -> 8
           [] connection.effectiveType = "3g" -> 9
           [] OTHER -> 10

\* The product q * v * n is an IEEE-754 double. It differs from the exact
\* product by less than 1e-12, which changes Math.round only when the exact
\* product is a tie k + 0.5; for base qualities in -24..149 the double lies
\* below the tie exactly for q * 0.7 with q = 45 and q = 85
\* (31.499999999999996 and 59.49999999999999).
doubleBelowTie(q, v, n) == v = 10 /\ n = 7 /\ q \in {45, 85}

\* Math.round of the double q * (v/10) * (n/10): floor(x + 0.5)
mathRound(q, v, n) ==
    LET exact == (2 * q * v * n + 100) \div 200 IN
    IF doubleBelowTie(q, v, n) THEN exact - 1 ELSE exact

max(a, b) == IF a >= b THEN a ELSE b
min(a, b) == IF a <= b THEN a ELSE b

calculateOptimalQuality_noLowerClamp(requestedQuality) ==
    LET variant == variantOf("compression-strategy", "balanced")
        base == IF ~requestedQuality.given \/ requestedQuality.value = 0
                THEN 80 ELSE requestedQuality.value
    IN min(95, mathRound(base, variantTenths(variant),
                         connectionTenths(deviceCapabilities)))

\* calculateOptimalQuality(requestedQuality)
calculateOptimalQuality(requestedQuality) ==
    LET variant == variantOf("compression-strategy", "balanced")
        \* requestedQuality || 80: undefined and 0 are falsy
        base == IF ~requestedQuality.given \/ requestedQuality.value = 0
                THEN 80 ELSE requestedQuality.value
    IN max(30, min(95, mathRound(base, variantTenths(variant),
                                 connectionTenths(deviceCapabilities))))

Experiments == {"format-preference", "compression-strategy"}

\* getABTestVariant(): one variant per experiment; null (A/B testing disabled)
\* is the assignment that gives "undefined" for every experiment
ABAssignments ==
    { [e \in Experiments |-> IF e = "format-preference" THEN f ELSE c] :
        f \in FormatVariants, c \in CompressionVariants }
    \cup { [e \in Experiments |-> "undefined"] }

\* detectDeviceCapabilities(): the connection part of the snapshot
Connections == [effectiveType : EffectiveTypes, saveData : BOOLEAN]

\* detectFormatSupport(): jpg is always supported
FormatSupports == [avif : BOOLEAN, webp : BOOLEAN, jpg : {TRUE}]

NoResult == [op |-> "none"]

\* optimizeImage -> selectOptimalFormat(). result holds the value returned by
\* the one call under observation; a capability change clears it.
SelectFormat ==
    /\ result = NoResult
    /\ result' = [op |-> "format", format |-> selectOptimalFormat]
    /\ UNCHANGED <<deviceCapabilities, formatSupport, abTestVariant>>
    /\ UNCHANGED notSelVars

\* optimizeImage -> calculateOptimalQuality(quality)
CalcQuality ==
    \E q \in RequestedQualities :
        /\ result = NoResult
        /\ result' = [op |-> "quality", requested |-> q,
                      quality |-> calculateOptimalQuality(q)]
        /\ UNCHANGED <<deviceCapabilities, formatSupport, abTestVariant>>
        /\ UNCHANGED notSelVars

\* setupConnectionMonitoring: the connection 'change' listener
ConnectionChange ==
    /\ \E c \in Connections : deviceCapabilities' = c
    /\ result' = NoResult
    /\ UNCHANGED <<formatSupport, abTestVariant>>
    /\ UNCHANGED notSelVars

-----------------------------------------------------------------------------
(* ImageOptimizationSystem: dimensions, srcset and placeholder *)

\* window.innerWidth of the device profiles
ViewportWidths == {320, 375, 768, 1280}

\* window.devicePixelRatio in quarters: 0.5, 1, 1.25, 1.5, 2, 3. The ratios are
\* dyadic, so every product with an integer is an exact double.
DevicePixelRatios == {2, 4, 5, 6, 8, 12}

\* requested widths and heights: the small range and a banner, a hero image
RequestedDimensions == (1..MaxDimension) \cup {400, 1600}

\* the connections of the device profiles: saveData set or not (the connection
\* class does not enter the dimensions)
ProfileConnections == {c \in Connections : c.effectiveType = "4g"}

\* getDeviceType(width), with config.deviceTypes mobile 768 and tablet 1024
getDeviceType(width) ==
    IF width <= 768 THEN "mobile"
    ELSE IF width <= 1024 THEN "tablet" ELSE "desktop"

\* Math.round(num / den) for den > 0: floor(num / den + 1/2). For the inputs
\* above the doubles of the code (x * 0.9, maxWidth / optimalWidth, x * 0.1)
\* round to the same integers as the exact quotients.
roundRatio(num, den) == (2 * num + den) \div (2 * den)

calculateOptimalDimensions_uncapped(requestedWidth, requestedHeight) ==
    LET scales == devicePixelRatio > 4 /\ ~deviceCapabilities.saveData
        width1 == IF scales THEN roundRatio(requestedWidth * devicePixelRatio, 4)
                  ELSE requestedWidth
        height1 == IF scales THEN roundRatio(requestedHeight * devicePixelRatio, 4)
                   ELSE requestedHeight
        constrains == /\ getDeviceType(viewport.width) = "mobile"
                      /\ 10 * width1 > 9 * viewport.width
    IN [width |-> IF constrains THEN roundRatio(9 * viewport.width, 10)
                  ELSE width1,
        height |-> IF constrains
                   THEN roundRatio(height1 * 9 * viewport.width, 10 * width1)
                   ELSE height1,
        originalWidth |-> requestedWidth,
        originalHeight |-> requestedHeight]

\* calculateOptimalDimensions(requestedWidth, requestedHeight)
calculateOptimalDimensions(requestedWidth, requestedHeight) ==
    LET \* devicePixelRatio > 1 && !connection.saveData
        scales == devicePixelRatio > 4 /\ ~deviceCapabilities.saveData
        \* Math.min(devicePixelRatio, 2)
        factor == min(devicePixelRatio, 8)
        width1 == IF scales THEN roundRatio(requestedWidth * factor, 4)
                  ELSE requestedWidth
        height1 == IF scales THEN roundRatio(requestedHeight * factor, 4)
                   ELSE requestedHeight
        \* deviceType === 'mobile' and optimalWidth > viewport.width * 0.9
        constrains == /\ getDeviceType(viewport.width) = "mobile"
                      /\ 10 * width1 > 9 * viewport.width
    IN [width |-> IF constrains THEN roundRatio(9 * viewport.width, 10)
                  ELSE width1,
        \* Math.round(optimalHeight * (maxWidth / optimalWidth))
        height |-> IF constrains
                   THEN roundRatio(height1 * 9 * viewport.width, 10 * width1)
                   ELSE height1,
        originalWidth |-> requestedWidth,
        originalHeight |-> requestedHeight]

\* generateOptimizedUrl(src, options): the parameters w, h, q, f and dpr of the
\* query string (dpr in quarters)
generateOptimizedUrl(options) ==
    [w |-> options.width, h |-> options.height, q |-> options.quality,
     f |-> options.format, dpr |-> min(devicePixelRatio, 8)]

\* the multipliers 0.5, 1, 1.5, 2 of generateSrcSet, in halves
breakpoints == <<1, 2, 3, 4>>

\* generateSrcSet(src, dimensions, format, quality): per breakpoint the URL and
\* the width descriptor
generateSrcSet(dimensions, format, quality) ==
    [i \in 1..Len(breakpoints) |->
        LET scaledWidth == roundRatio(dimensions.width * breakpoints[i], 2)
            scaledHeight == roundRatio(dimensions.height * breakpoints[i], 2)
        IN [url |-> generateOptimizedUrl([format |-> format,
                                          width |-> scaledWidth,
                                          height |-> scaledHeight,
                                          quality |-> quality]),
            descriptor |-> scaledWidth]]

\* generatePlaceholder(src, dimensions), with lazyLoading.placeholderQuality 10
generatePlaceholder(dimensions) ==
    [w |-> roundRatio(dimensions.width, 10),
     h |-> roundRatio(dimensions.height, 10),
     q |-> 10, f |-> "jpg"]

NoDescriptor == [op |-> "none"]
NoPlaceholder == [w |-> 0, h |-> 0, q |-> 0, f |-> "null"]

\* optimizeImage(src, {width, height, placeholder}) without a quality option
optimizeImage(width, height, placeholder) ==
    LET format == selectOptimalFormat
        dimensions == calculateOptimalDimensions(width, height)
        optimalQuality == calculateOptimalQuality([given |-> FALSE, value |-> 0])
    IN [op |-> "optimizeImage",
        dimensions |-> dimensions,
        src |-> generateOptimizedUrl([format |-> format,
                                      width |-> dimensions.width,
                                      height |-> dimensions.height,
                                      quality |-> optimalQuality]),
        srcset |-> generateSrcSet(dimensions, format, optimalQuality),
        placeholder |-> IF placeholder THEN generatePlaceholder(dimensions)
                        ELSE NoPlaceholder,
        hasPlaceholder |-> placeholder]

\* a call of optimizeImage with positive integer dimensions
OptimizeImage ==
    \E width \in RequestedDimensions, height \in RequestedDimensions,
       placeholder \in BOOLEAN :
        /\ descriptor' = optimizeImage(width, height, placeholder)
        /\ UNCHANGED <<viewport, devicePixelRatio, deviceCapabilities>>
        /\ UNCHANGED notDimVars

\* the debounced window 'resize' listener (setupAdaptiveLoading):
\* this.deviceCapabilities = this.detectDeviceCapabilities(). The page holds no
\* img[data-adaptive="true"] for adjustQualityBasedOnConnection to rewrite.
Resize ==
    /\ \E width \in ViewportWidths : viewport' = [width |-> width]
    /\ devicePixelRatio' \in DevicePixelRatios
    /\ deviceCapabilities' \in ProfileConnections
    /\ descriptor' = NoDescriptor
    /\ UNCHANGED notDimVars

-----------------------------------------------------------------------------
(* ImageOptimizationSystem: the lazy-load scheduler *)

Elements == 1..MaxElements

\* An img element that carries data-src (createOptimizedImage sets it on every
\* non-critical image; page markup may carry it too).
\*   pos         "none": not created; "detached": created, not in the document;
\*               "outside" / "inside": in the document, outside / inside the
\*               proximity region (rootMargin, threshold) of the viewport
\*   fallbackSrc dataset.fallbackSrc is set
\*   placeholder dataset.placeholder is set
\*   src         what img.src shows: "initial", "placeholder", "real",
\*               "fallback", "default" (generateDefaultPlaceholder)
\*   blur        style.filter is blur(5px)
\*   loaded      dataset.loaded === 'true'
\*   errorClass  classList contains image-error
\*   errored     handleImageError has run for the element
\*   inflight    loadImage calls awaiting loadImageAsync
NoImg == [pos |-> "none", fallbackSrc |-> FALSE, placeholder |-> FALSE,
          src |-> "none", blur |-> FALSE, loaded |-> FALSE,
          errorClass |-> FALSE, errored |-> FALSE, inflight |-> 0]

\* markup of the page: img[data-src] present in the document from the start
MarkupImgs ==
    { [NoImg EXCEPT !.pos = p, !.fallbackSrc = f, !.placeholder = ph,
                    !.src = "initial"] :
        p \in {"outside", "inside"}, f \in BOOLEAN, ph \in BOOLEAN }

inDocument(e) == img[e].pos \in {"outside", "inside"}

\* document.querySelectorAll('img[data-src]:not([data-loaded="true"])')
pendingImages == { e \in Elements : inDocument(e) /\ ~img[e].loaded }

loadImage_noLoadedGuard(e) ==
    [img[e] EXCEPT
        !.src = IF img[e].placeholder THEN "placeholder" ELSE @,
        !.blur = IF img[e].placeholder THEN TRUE ELSE @,
        !.inflight = @ + 1]

\* loadImage(img) up to its await: the loaded guard, the placeholder, the
\* start of loadImageAsync
loadImage(e) ==
    IF img[e].loaded THEN img[e]
    ELSE [img[e] EXCEPT
            !.src = IF img[e].placeholder THEN "placeholder" ELSE @,
            !.blur = IF img[e].placeholder THEN TRUE ELSE @,
            !.inflight = @ + 1]

\* generateDefaultPlaceholder(): btoa(svg). The text of the svg is Japanese, and
\* btoa throws InvalidCharacterError for a code unit above 0xFF.
generateDefaultPlaceholder == "InvalidCharacterError"

\* handleImageError(img): without a fallback source the assignment of img.src
\* and classList.add('image-error') follow the call that throws
handleImageError(image) ==
    IF image.fallbackSrc
    THEN [image EXCEPT !.src = "fallback", !.errored = TRUE]
    ELSE IF generateDefaultPlaceholder = "InvalidCharacterError"
    THEN [image EXCEPT !.errored = TRUE]
    ELSE [image EXCEPT !.src = "default", !.errorClass = TRUE, !.errored = TRUE]

\* constructor + init(): probes awaited, then setupIntersectionObserver() ...
\* setupAdaptiveLoading() register the observer and the online/offline listeners
InitDone ==
    /\ lazyInit = "probing"
    /\ lazyInit' = "ready"
    /\ UNCHANGED notLazyVars
    /\ UNCHANGED <<connectivity, img, observed, previousIsIntersecting,
                   queuedEntries>>

\* createOptimizedImage(src, options) with a non-critical priority
CreateOptimizedImage(e) ==
    /\ lazyInit = "ready"
    /\ img[e].pos = "none"
    /\ img' = [img EXCEPT ![e] = [NoImg EXCEPT !.pos = "detached",
                                               !.src = "initial"]]
    /\ observed' = observed \cup {e}
    /\ UNCHANGED notLazyVars
    /\ UNCHANGED <<lazyInit, connectivity, previousIsIntersecting, queuedEntries>>

\* the caller appends the returned element to the document
Attach(e) ==
    /\ img[e].pos = "detached"
    /\ \E p \in {"outside", "inside"} : img' = [img EXCEPT ![e].pos = p]
    /\ UNCHANGED notLazyVars
    /\ UNCHANGED <<lazyInit, connectivity, observed, previousIsIntersecting,
                   queuedEntries>>

\* scrolling or layout moves the element across the proximity region
Scroll(e) ==
    /\ inDocument(e)
    /\ img' = [img EXCEPT ![e].pos = IF @ = "inside" THEN "outside" ELSE "inside"]
    /\ UNCHANGED notLazyVars
    /\ UNCHANGED <<lazyInit, connectivity, observed, previousIsIntersecting,
                   queuedEntries>>

\* the platform's update of intersection observations: an entry is queued for
\* a target whose isIntersecting changed since the last update (false at
\* observe()); the callback acts on entry.isIntersecting only
UpdateObservations(e) ==
    /\ e \in observed
    /\ LET isIntersecting == img[e].pos = "inside" IN
       /\ isIntersecting # (e \in previousIsIntersecting)
       /\ previousIsIntersecting' =
             IF isIntersecting THEN previousIsIntersecting \cup {e}
             ELSE previousIsIntersecting \ {e}
       /\ queuedEntries' =
             IF isIntersecting THEN queuedEntries \cup {e} ELSE queuedEntries
    /\ UNCHANGED notLazyVars
    /\ UNCHANGED <<lazyInit, connectivity, img, observed>>

\* the IntersectionObserver callback for an isIntersecting entry:
\* loadImage(entry.target), then unobserve(entry.target)
IntersectionCallback(e) ==
    /\ e \in queuedEntries
    /\ img[e].loaded \/ img[e].inflight < MaxInFlight
    /\ queuedEntries' = queuedEntries \ {e}
    /\ img' = [img EXCEPT ![e] = loadImage(e)]
    /\ observed' = observed \ {e}
    /\ previousIsIntersecting' = previousIsIntersecting \ {e}
    /\ UNCHANGED notLazyVars
    /\ UNCHANGED <<lazyInit, connectivity>>

LoadSucceeds_keepsFilter(e) ==
    /\ img[e].inflight > 0
    /\ img' = [img EXCEPT ![e] = [@ EXCEPT !.src = "real", !.loaded = TRUE,
                                           !.inflight = @ - 1]]
    /\ UNCHANGED notLazyVars
    /\ UNCHANGED <<lazyInit, connectivity, observed, previousIsIntersecting,
                   queuedEntries>>

\* loadImageAsync resolves (onload) and loadImage continues after its await
LoadSucceeds(e) ==
    /\ img[e].inflight > 0
    /\ img' = [img EXCEPT ![e] = [@ EXCEPT !.src = "real", !.blur = FALSE,
                                           !.loaded = TRUE, !.inflight = @ - 1]]
    /\ UNCHANGED notLazyVars
    /\ UNCHANGED <<lazyInit, connectivity, observed, previousIsIntersecting,
                   queuedEntries>>

\* loadImageAsync rejects (onerror): the catch block runs handleImageError
LoadFails(e) ==
    /\ img[e].inflight > 0
    /\ img' = [img EXCEPT ![e] = handleImageError([@ EXCEPT !.inflight = @ - 1])]
    /\ UNCHANGED notLazyVars
    /\ UNCHANGED <<lazyInit, connectivity, observed, previousIsIntersecting,
                   queuedEntries>>

\* pauseImageLoading(): disconnect() and a fresh observer. Whether entries the
\* old observer had queued are still delivered is left to the platform.
pauseImageLoading ==
    /\ observed' = {}
    /\ previousIsIntersecting' = {}
    /\ \E kept \in {queuedEntries, {}} : queuedEntries' = kept

\* resumeImageLoading(): observe every pending image of the document
resumeImageLoading ==
    /\ observed' = observed \cup pendingImages
    /\ UNCHANGED <<previousIsIntersecting, queuedEntries>>

\* window 'offline' listener (setupAdaptiveLoading)
Offline ==
    /\ lazyInit = "ready"
    /\ connectivity = "online"
    /\ connectivity' = "offline"
    /\ pauseImageLoading
    /\ UNCHANGED notLazyVars
    /\ UNCHANGED <<lazyInit, img>>

\* window 'online' listener (setupAdaptiveLoading)
Online ==
    /\ lazyInit = "ready"
    /\ connectivity = "offline"
    /\ connectivity' = "online"
    /\ resumeImageLoading
    /\ UNCHANGED notLazyVars
    /\ UNCHANGED <<lazyInit, img>>

-----------------------------------------------------------------------------
(* ImageOptimizationSystem: constructor, init() and the public calls *)

\* how a decode probe ends: the test image loads, fails to decode, or
\* createTestImage throws (no Image constructor)
ProbeOutcomes == {"onload", "onerror", "throws"}

\* this.formatSupport before detectFormatSupport has assigned it (the
\* constructor does not set it); a detected support always has jpg
undefinedSupport == [avif |-> FALSE, webp |-> FALSE, jpg |-> FALSE]

\* the two probes are pending and the promise of detectFormatSupport too
NoProbes == [avif |-> "pending", webp |-> "pending", detect |-> "pending"]

detectFormatSupport_noCatch(avifOutcome, webpOutcome) ==
    IF "throws" \in {avifOutcome, webpOutcome}
    THEN [state |-> "rejected", formatSupport |-> undefinedSupport]
    ELSE [state |-> "fulfilled",
          formatSupport |-> [avif |-> avifOutcome = "onload",
                             webp |-> webpOutcome = "onload", jpg |-> TRUE]]

\* detectFormatSupport() for the outcomes of its two probes: createTestImage
\* resolves true on load and false on error, and each await sits in a
\* try/catch that sets false
detectFormatSupport(avifOutcome, webpOutcome) ==
    [state |-> "fulfilled",
     formatSupport |-> [avif |-> avifOutcome = "onload",
                        webp |-> webpOutcome = "onload", jpg |-> TRUE]]

NoCall == [op |-> "none", outcome |-> "none", format |-> "none",
           formatSupportSet |-> FALSE, observerExists |-> FALSE]

\* what a public call meets and how it ends: selectOptimalFormat reads
\* this.formatSupport.avif or .webp, createOptimizedImage calls
\* this.intersectionObserver.observe for a non-critical priority
callOf(op, observes) ==
    LET supportSet == formatSupport # undefinedSupport
        observerExists == intersectionObserver # "null"
    IN [op |-> op,
        outcome |-> IF ~supportSet \/ (observes /\ ~observerExists)
                    THEN "TypeError" ELSE "returned",
        format |-> IF supportSet THEN selectOptimalFormat ELSE "none",
        formatSupportSet |-> supportSet,
        observerExists |-> observerExists]

\* the first probe of detectFormatSupport settles
AvifProbeSettles ==
    /\ lazyInit = "avifProbe"
    /\ \E outcome \in ProbeOutcomes : probes' = [probes EXCEPT !.avif = outcome]
    /\ lazyInit' = "webpProbe"
    /\ UNCHANGED <<formatSupport, intersectionObserver, called, img, observed>>
    /\ UNCHANGED notInitVars

\* the second probe settles: detectFormatSupport assigns this.formatSupport and
\* init() goes on in the same task with setupIntersectionObserver() up to
\* setupAdaptiveLoading(); a throw on the way (no PerformanceObserver) or a
\* rejection of detectFormatSupport ends in fallbackToBasicOptimization()
WebpProbeSettles ==
    /\ lazyInit = "webpProbe"
    /\ \E outcome \in ProbeOutcomes :
          LET detected == detectFormatSupport(probes.avif, outcome) IN
          /\ probes' = [probes EXCEPT !.webp = outcome, !.detect = detected.state]
          /\ IF detected.state = "rejected"
             THEN /\ lazyInit' = "basic"
                  /\ UNCHANGED <<formatSupport, intersectionObserver>>
             ELSE /\ formatSupport' = detected.formatSupport
                  /\ intersectionObserver' = "observer"
                  /\ lazyInit' \in {"ready", "basic"}
    /\ UNCHANGED <<called, img, observed>>
    /\ UNCHANGED notInitVars

\* a call of optimizeImage(src, options) by a script of the page
CallOptimizeImage ==
    /\ called' = callOf("optimizeImage", FALSE)
    /\ UNCHANGED <<lazyInit, formatSupport, probes, intersectionObserver, img,
                   observed>>
    /\ UNCHANGED notInitVars

\* a call of createOptimizedImage(src, options) by a script of the page, with
\* priority 'critical' or not: a call that returns has made the element and,
\* unless critical, observes it
CallCreateOptimizedImage(e) ==
    \E critical \in BOOLEAN :
        /\ img[e].pos = "none"
        /\ called' = callOf("createOptimizedImage", ~critical)
        /\ IF called'.outcome = "returned"
           THEN /\ img' = [img EXCEPT ![e] = [NoImg EXCEPT !.pos = "detached",
                                                      !.src = "initial"]]
                /\ observed' = IF critical THEN observed ELSE observed \cup {e}
           ELSE UNCHANGED <<img, observed>>
        /\ UNCHANGED <<lazyInit, formatSupport, probes, intersectionObserver>>
        /\ UNCHANGED notInitVars

-----------------------------------------------------------------------------
(* ImageOptimizationSW: cache partitions, cacheResponse and manageCacheSize *)

MB == 1024 * 1024

CACHE_VERSION == "v1.2.0"

\* CACHE_NAMES: a cache name is written as its '-'-separated segments, so that
\* cacheName.split('-')[0] is its first segment
CACHE_NAMES ==
    [images    |-> <<"images", CACHE_VERSION>>,
     static    |-> <<"static", CACHE_VERSION>>,
     dynamic   |-> <<"dynamic", CACHE_VERSION>>,
     optimized |-> <<"optimized", "images", CACHE_VERSION>>]

CurrentCaches == {CACHE_NAMES[n] : n \in DOMAIN CACHE_NAMES}

MAX_CACHE_SIZE ==
    [images    |-> 50 * MB,
     optimized |-> 100 * MB,
     static    |-> 10 * MB,
     dynamic   |-> 25 * MB]

\* MAX_CACHE_SIZE[cacheName.split('-')[0]] || 50 * 1024 * 1024
maxSizeOf(cacheName) ==
    IF Head(cacheName) \in DOMAIN MAX_CACHE_SIZE
    THEN MAX_CACHE_SIZE[Head(cacheName)]
    ELSE 50 * MB

\* request URLs
Keys == 1..MaxKeys

\* content-length of a response; 0 stands for a response without the header
ContentLengths == {0, 30 * MB}

\* the caches cacheResponse writes: the static cache when named by the caller,
\* else images for an image request and dynamic for any other
CachesToUse == {CACHE_NAMES.images, CACHE_NAMES.dynamic, CACHE_NAMES.static}

\* parseInt(response.headers.get('content-length')) || 1024
sizeOf(entry) == IF entry.contentLength = 0 THEN 1024 ELSE entry.contentLength

RECURSIVE sumSizes(_)
\* responseData.reduce((sum, item) => sum + item.size, 0)
sumSizes(data) ==
    IF data = <<>> THEN 0 ELSE Head(data).size + sumSizes(Tail(data))

\* the requests of a cache, in insertion order: cache.keys()
keysOf(entries) == [i \in 1..Len(entries) |-> entries[i].request]

hasKey(entries, k) == \E i \in 1..Len(entries) : entries[i].request = k

\* cache.match(request): the stored entry, or none
entryOf(entries, k) ==
    entries[CHOOSE i \in 1..Len(entries) : entries[i].request = k]

RECURSIVE without(_, _)
\* cache.delete(request)
without(entries, k) ==
    IF entries = <<>> THEN <<>>
    ELSE IF Head(entries).request = k THEN without(Tail(entries), k)
    ELSE <<Head(entries)>> \o without(Tail(entries), k)

\* cache.put(request, response): replaces the entry of the request
putEntry(entries, entry) == Append(without(entries, entry.request), entry)

RECURSIVE matched(_, _)
\* responses.filter(response => response): the responses found, in key order
matched(requests, entries) ==
    IF requests = <<>> THEN <<>>
    ELSE IF hasKey(entries, Head(requests))
         THEN <<entryOf(entries, Head(requests))>> \o matched(Tail(requests), entries)
         ELSE matched(Tail(requests), entries)

\* .map((response, index) => ({request: requests[index], ...})): index counts
\* the filtered responses, requests is the unfiltered key list
labelled(requests, responses) ==
    [i \in 1..Len(responses) |->
        [request |-> requests[i], size |-> sizeOf(responses[i]),
         cachedAt |-> responses[i].cachedAt]]

RECURSIVE insertSorted(_, _)
insertSorted(item, sorted) ==
    IF sorted = <<>> THEN <<item>>
    ELSE IF item.cachedAt < Head(sorted).cachedAt THEN <<item>> \o sorted
    ELSE <<Head(sorted)>> \o insertSorted(item, Tail(sorted))

RECURSIVE sortByCachedAt(_)
\* .sort((a, b) => a.cachedAt - b.cachedAt): stable, oldest first
sortByCachedAt(data) ==
    IF data = <<>> THEN <<>>
    ELSE insertSorted(data[Len(data)], sortByCachedAt(SubSeq(data, 1, Len(data) - 1)))

\* manageCacheSize: responseData of the key list against the cache contents
responseDataOf(requests, entries) ==
    sortByCachedAt(labelled(requests, matched(requests, entries)))

IdleFlow == [pc |-> "idle", cacheName |-> <<>>, entry |-> <<>>,
             requests |-> <<>>, responses |-> <<>>, responseData |-> <<>>,
             currentSize |-> 0]

Flows == 1..MaxFlows

\* cacheResponse(request, response, cacheName): the cache is opened, the
\* response is stamped with sw-cached-at = Date.now() and cache.put is issued
CacheResponse(f) ==
    /\ flow[f].pc = "idle"
    /\ now < MaxPuts
    /\ \E k \in Keys, c \in ContentLengths, n \in CachesToUse :
         flow' = [flow EXCEPT ![f] =
                    [IdleFlow EXCEPT !.pc = "put", !.cacheName = n,
                        !.entry = [request |-> k, contentLength |-> c,
                                   cachedAt |-> now + 1]]]
    /\ now' = now + 1
    /\ UNCHANGED caches
    /\ UNCHANGED notCacheVars

\* await cache.put(request, responseWithTimestamp) resolves
CachePut(f) ==
    /\ flow[f].pc = "put"
    /\ caches' = [caches EXCEPT ![flow[f].cacheName] = putEntry(@, flow[f].entry)]
    /\ flow' = [flow EXCEPT ![f].pc = "keys"]
    /\ UNCHANGED now
    /\ UNCHANGED notCacheVars

\* await cache.put(...) rejects (quota exceeded): cacheResponse throws
CachePutFails(f) ==
    /\ flow[f].pc = "put"
    /\ flow' = [flow EXCEPT ![f] = IdleFlow]
    /\ UNCHANGED <<caches, now>>
    /\ UNCHANGED notCacheVars

\* manageCacheSize: const requests = await cache.keys()
SweepKeys(f) ==
    /\ flow[f].pc = "keys"
    /\ flow' = [flow EXCEPT ![f].pc = "match",
                            ![f].requests = keysOf(caches[flow[f].cacheName])]
    /\ UNCHANGED <<caches, now>>
    /\ UNCHANGED notCacheVars

\* manageCacheSize: await Promise.all(requests.map(cache.match)), responseData,
\* currentSize and the first test of the while loop
SweepMatch(f) ==
    /\ flow[f].pc = "match"
    /\ LET found == matched(flow[f].requests, caches[flow[f].cacheName])
           data == responseDataOf(flow[f].requests, caches[flow[f].cacheName])
           size == sumSizes(data)
       IN flow' = [flow EXCEPT ![f] =
                     IF size > maxSizeOf(flow[f].cacheName) /\ data # <<>>
                     THEN [@ EXCEPT !.pc = "evict", !.responses = found,
                                    !.responseData = data, !.currentSize = size]
                     ELSE IdleFlow]
    /\ UNCHANGED <<caches, now>>
    /\ UNCHANGED notCacheVars

\* manageCacheSize: one turn of the while loop: responseData.shift(),
\* await cache.delete(oldest.request), currentSize -= oldest.size
SweepEvict(f) ==
    /\ flow[f].pc = "evict"
    /\ LET oldest == Head(flow[f].responseData)
           rest == Tail(flow[f].responseData)
           size == flow[f].currentSize - oldest.size
       IN /\ caches' = [caches EXCEPT ![flow[f].cacheName] = without(@, oldest.request)]
          /\ flow' = [flow EXCEPT ![f] =
                        IF size > maxSizeOf(flow[f].cacheName) /\ rest # <<>>
                        THEN [@ EXCEPT !.responseData = rest, !.currentSize = size]
                        ELSE IdleFlow]
    /\ UNCHANGED now
    /\ UNCHANGED notCacheVars

-----------------------------------------------------------------------------
(* ImageOptimizationSW: handleFetch for image requests and the fallback chain *)

CDN_DOMAINS == <<"cdn.example.com", "images.example.com", "cdn2.example.com">>

\* hostnames of the image requests; a request is named by its hostname
Hostnames == {"cdn.example.com", "static.cdn2.example.com", "www.example.org"}

\* the characters of a hostname or domain
chars(name) ==
    CASE name = "cdn.example.com" ->
           <<"c","d","n",".","e","x","a","m","p","l","e",".","c","o","m">>
      [] name = "images.example.com" ->
           <<"i","m","a","g","e","s",".","e","x","a","m","p","l","e",".","c","o","m">>
      [] name = "cdn2.example.com" ->
           <<"c","d","n","2",".","e","x","a","m","p","l","e",".","c","o","m">>
      [] name = "static.cdn2.example.com" ->
           <<"s","t","a","t","i","c",".","c","d","n","2",".","e","x","a","m","p","l","e",".","c","o","m">>
      [] name = "www.example.org" ->
           <<"w","w","w",".","e","x","a","m","p","l","e",".","o","r","g">>

\* String.prototype.includes
includes(hostname, domain) ==
    LET s == chars(hostname)
        t == chars(domain)
    IN \E i \in 0..(Len(s) - Len(t)) : SubSeq(s, i + 1, i + Len(t)) = t

Day == 24 * 60 * 60

\* CACHE_EXPIRY, in seconds (as are now and sw-cached-at in this model)
CACHE_EXPIRY ==
    [images    |-> 7 * Day,
     optimized |-> 30 * Day,
     static    |-> Day,
     dynamic   |-> 2 * 60 * 60]

\* the time that passes between two fetch events
Elapses == {8 * Day}

\* tryFallbackCDN with the list left unfiltered
fallbackDomains_unfiltered(hostname) == CDN_DOMAINS

\* tryFallbackCDN: CDN_DOMAINS.filter(domain => !url.hostname.includes(domain))
fallbackDomains(hostname) ==
    SelectSeq(CDN_DOMAINS, LAMBDA domain : ~includes(hostname, domain))

\* caches.keys(): the caches in the order of their creation (handleInstall
\* opens static, handleImageRequest optimized then images, cacheResponse
\* of another request dynamic)
allCaches ==
    <<CACHE_NAMES.static, CACHE_NAMES.optimized, CACHE_NAMES.images,
      CACHE_NAMES.dynamic>>

\* the first cache of allCaches holding the request, as an index; 0 if none
firstCacheWith(cs, request) ==
    IF \E i \in DOMAIN allCaches : hasKey(cs[allCaches[i]], request)
    THEN CHOOSE i \in DOMAIN allCaches :
            /\ hasKey(cs[allCaches[i]], request)
            /\ \A j \in 1..(i - 1) : ~hasKey(cs[allCaches[j]], request)
    ELSE 0

\* isExpired(response): a response without sw-cached-at is never expired; for
\* a stamped one isImageRequest({ url: response.url }) is evaluated, which
\* throws (no headers on the argument; response.url of a rebuilt Response
\* is empty)
isExpired(entry) == IF entry.cachedAt = 0 THEN "false" ELSE "throws"

RECURSIVE evictLoop(_, _, _, _)
\* manageCacheSize: the while loop, run to its end
evictLoop(entries, responseData, currentSize, maxSize) ==
    IF currentSize > maxSize /\ responseData # <<>>
    THEN evictLoop(without(entries, Head(responseData).request),
                   Tail(responseData),
                   currentSize - Head(responseData).size, maxSize)
    ELSE entries

\* manageCacheSize(cacheName) with no other cache operation in between
manageCacheSize(entries, cacheName) ==
    LET responseData == responseDataOf(keysOf(entries), entries)
    IN evictLoop(entries, responseData, sumSizes(responseData),
                 maxSizeOf(cacheName))

\* cacheResponse(request, response) of an image request, run to its end
cacheResponse(cs, request, contentLength, cachedAt) ==
    LET cacheToUse == CACHE_NAMES.images
        stored == putEntry(cs[cacheToUse],
                           [request |-> request, contentLength |-> contentLength,
                            cachedAt |-> cachedAt])
    IN [cs EXCEPT ![cacheToUse] = manageCacheSize(stored, cacheToUse)]

NoResponse == [kind |-> "none"]

\* detectCapabilities: the connectionType it sets
detectCapabilities == "4g"

\* getTimeoutForConnection
getTimeoutForConnection(type) ==
    CASE type = "slow-2g" -> 8000
      [] type = "2g" -> 6000
      [] type = "3g" -> 4000
      [] type = "4g" -> 2000
      [] OTHER -> 3000

\* no format support resolved
NoSupport == [avif |-> FALSE, webp |-> FALSE, jpg |-> FALSE]

\* getFormatSupport: the value resolved when the worker has no client
defaultFormatSupport == [avif |-> FALSE, webp |-> TRUE, jpg |-> TRUE]

\* getBestFormat
getBestFormat(support) ==
    IF support.avif THEN "avif"
    ELSE IF support.webp THEN "webp"
    ELSE "jpg"

\* optimizeRequest: the format support resolved (by a client or by default)
\* and the 'f' parameter set from it
optimizeRequest(s, support, from) ==
    [s EXCEPT !.pc = "fetch", !.formatSupport = support, !.formatFrom = from,
              !.format = getBestFormat(support)]

\* the optimized request was sent: its parameters are gone with it
sent(s) ==
    [s EXCEPT !.formatSupport = NoSupport, !.formatFrom = "none",
              !.format = "none"]

IdleSW == [pc |-> "idle", url |-> "", hasOptimizedParam |-> FALSE,
           formatSupport |-> NoSupport, formatFrom |-> "none",
           format |-> "none",
           timeoutId |-> "none", timeout |-> 0, failure |-> "none",
           domains |-> <<>>,
           contentLength |-> 0, steps |-> <<>>, response |-> NoResponse]

\* the promise returned by handleFetch resolves with the response
settled(s, response) == [s EXCEPT !.pc = "settled", !.response = response]

\* tryFallbackCDN: the next turn of the loop over the domains left, or the
\* return of null and handleImageFallback
nextFallback(s, domains) ==
    IF domains = <<>>
    THEN [s EXCEPT !.pc = "handleImageFallback", !.domains = <<>>]
    ELSE [s EXCEPT !.pc = "fallbackFetch", !.domains = domains]

\* fetchImageWithStrategy without a catch of its own: the error reaches the
\* catch of handleFetch
catch_rethrown(s, failure) ==
    [s EXCEPT !.failure = failure, !.pc = "handleFallback"]

\* fetchImageWithStrategy: the catch block is entered
catch(s, failure) ==
    nextFallback([s EXCEPT !.failure = failure], fallbackDomains(s.url))

\* 'fetch' listener: event.respondWith(this.handleFetch(event.request)) for an
\* image request
HandleFetch ==
    /\ sw.pc \in {"idle", "settled"}
    /\ handled < MaxRequests
    /\ \E url \in Hostnames, optimized \in BOOLEAN :
         sw' = [IdleSW EXCEPT !.pc = "handleImageRequest", !.url = url,
                              !.hasOptimizedParam = optimized]
    /\ handled' = handled + 1
    /\ UNCHANGED <<clients, connectionType, lastReported, caches, now>>
    /\ UNCHANGED notSwVars

\* handleImageRequest: the two cache lookups; on a miss fetchImageWithStrategy
\* up to the call of optimizeRequest (detectCapabilities, setTimeout)
HandleImageRequest ==
    /\ sw.pc = "handleImageRequest"
    /\ LET optimizedCache == caches[CACHE_NAMES.optimized]
           imageCache == caches[CACHE_NAMES.images]
           hit(cacheName) ==
               LET cachedResponse == entryOf(caches[cacheName], sw.url)
               IN IF isExpired(cachedResponse) = "throws"
                  THEN [sw EXCEPT !.pc = "handleFallback"]
                  ELSE settled(sw, [kind |-> "cached", cacheName |-> cacheName])
       IN IF hasKey(optimizedCache, sw.url)
          THEN sw' = hit(CACHE_NAMES.optimized) /\ UNCHANGED connectionType
          ELSE IF hasKey(imageCache, sw.url)
          THEN sw' = hit(CACHE_NAMES.images) /\ UNCHANGED connectionType
          ELSE /\ connectionType' = detectCapabilities
               /\ sw' = [sw EXCEPT !.timeoutId = "armed",
                                   !.timeout = getTimeoutForConnection(detectCapabilities),
                                   !.pc = IF sw.hasOptimizedParam
                                          THEN "fetch" ELSE "getFormatSupport"]
    /\ UNCHANGED <<clients, handled, lastReported, caches, now>>
    /\ UNCHANGED notSwVars

\* the network classes the page reports in the runs examined
ReportedTypes == {"slow-2g", "3g"}

\* handleMessage: UPDATE_DEVICE_CAPABILITIES, delivered before the task of
\* fetchImageWithStrategy that reads connectionType (a message delivered
\* later in the handling is read by no step before the next fetch event)
UpdateDeviceCapabilities ==
    /\ sw.pc \in {"idle", "settled", "handleImageRequest"}
    /\ \E effectiveType \in ReportedTypes :
         /\ connectionType' = effectiveType
         /\ lastReported' = effectiveType
    /\ connectionType' # connectionType \/ lastReported' # lastReported
    /\ UNCHANGED <<sw, clients, handled, caches, now>>
    /\ UNCHANGED notSwVars

\* getFormatSupport: clients.matchAll() resolves; with a client the request
\* is posted and the 'message' listener added, else the default resolves
GetFormatSupport ==
    /\ sw.pc = "getFormatSupport"
    /\ sw' = IF clients > 0
             THEN [sw EXCEPT !.pc = "awaitClient"]
             ELSE optimizeRequest(sw, defaultFormatSupport, "default")
    /\ UNCHANGED <<clients, handled, connectionType, lastReported, caches, now>>
    /\ UNCHANGED notSwVars

\* a client posts FORMAT_SUPPORT_RESPONSE: the handler resolves the promise
ClientAnswers ==
    /\ sw.pc = "awaitClient"
    /\ \E support \in FormatSupports : sw' = optimizeRequest(sw, support, "client")
    /\ UNCHANGED <<clients, handled, connectionType, lastReported, caches, now>>
    /\ UNCHANGED notSwVars

\* the timer of fetchImageWithStrategy fires: controller.abort()
TimerFires ==
    /\ sw.timeoutId = "armed"
    /\ sw.pc \in {"getFormatSupport", "awaitClient", "fetch"}
    /\ sw' = [sw EXCEPT !.timeoutId = "fired"]
    /\ UNCHANGED <<clients, handled, connectionType, lastReported, caches, now>>
    /\ UNCHANGED notSwVars

\* fetch(optimizedRequest, {signal}) resolves with an ok response
FetchOk ==
    /\ sw.pc = "fetch"
    /\ sw.timeoutId # "fired"
    /\ \E c \in ContentLengths :
         sw' = [sent(sw) EXCEPT !.pc = "cacheResponse", !.timeoutId = "cleared",
                                !.contentLength = c]
    /\ UNCHANGED <<clients, handled, connectionType, lastReported, caches, now>>
    /\ UNCHANGED notSwVars

\* fetch resolves with a response that is not ok: throw new Error(HTTP status)
FetchNotOk ==
    /\ sw.pc = "fetch"
    /\ sw.timeoutId # "fired"
    /\ sw' = catch([sent(sw) EXCEPT !.timeoutId = "cleared"], "status")
    /\ UNCHANGED <<clients, handled, connectionType, lastReported, caches, now>>
    /\ UNCHANGED notSwVars

\* fetch rejects: network or transport error
FetchError ==
    /\ sw.pc = "fetch"
    /\ sw.timeoutId # "fired"
    /\ sw' = catch(sent(sw), "error")
    /\ UNCHANGED <<clients, handled, connectionType, lastReported, caches, now>>
    /\ UNCHANGED notSwVars

\* fetch rejects with AbortError: the signal was aborted by the timer
FetchAborted ==
    /\ sw.pc = "fetch"
    /\ sw.timeoutId = "fired"
    /\ sw' = catch(sent(sw), "abort")
    /\ UNCHANGED <<clients, handled, connectionType, lastReported, caches, now>>
    /\ UNCHANGED notSwVars

\* fetchImageWithStrategy: await this.cacheResponse(...) resolves; return response
CacheResponseStored ==
    /\ sw.pc = "cacheResponse"
    /\ caches' = cacheResponse(caches, sw.url, sw.contentLength, now + 1)
    /\ now' = now + 1
    /\ sw' = settled(sw, [kind |-> "network"])
    /\ UNCHANGED <<clients, handled, connectionType, lastReported>>
    /\ UNCHANGED notSwVars

\* fetchImageWithStrategy: await this.cacheResponse(...) rejects (cache.put
\* fails): the catch block is entered
CacheResponseFails ==
    /\ sw.pc = "cacheResponse"
    /\ sw' = catch(sw, "storage")
    /\ UNCHANGED <<clients, handled, connectionType, lastReported, caches, now>>
    /\ UNCHANGED notSwVars

\* fetchImageWithStrategy: await this.cacheResponse(...) rejects in
\* manageCacheSize, after cache.put stored the response: the catch block is
\* entered
CacheResponseSweepFails ==
    /\ sw.pc = "cacheResponse"
    /\ caches' = [caches EXCEPT ![CACHE_NAMES.images] =
                     putEntry(@, [request |-> sw.url,
                                  contentLength |-> sw.contentLength,
                                  cachedAt |-> now + 1])]
    /\ now' = now + 1
    /\ sw' = catch(sw, "storage")
    /\ UNCHANGED <<clients, handled, connectionType, lastReported>>
    /\ UNCHANGED notSwVars

\* tryFallbackCDN: fetch(fallbackRequest) resolves with an ok response
FallbackOk ==
    /\ sw.pc = "fallbackFetch"
    /\ \E c \in ContentLengths :
         sw' = [sw EXCEPT !.pc = "fallbackCacheResponse", !.contentLength = c,
                          !.steps = Append(@, [step |-> "cdn",
                                               domain |-> Head(sw.domains),
                                               ok |-> TRUE])]
    /\ UNCHANGED <<clients, handled, connectionType, lastReported, caches, now>>
    /\ UNCHANGED notSwVars

\* tryFallbackCDN: fetch(fallbackRequest) resolves with a response that is not
\* ok: the loop goes on
FallbackNotOk ==
    /\ sw.pc = "fallbackFetch"
    /\ sw' = nextFallback([sw EXCEPT !.steps =
                              Append(@, [step |-> "cdn",
                                         domain |-> Head(sw.domains),
                                         ok |-> FALSE])],
                          Tail(sw.domains))
    /\ UNCHANGED <<clients, handled, connectionType, lastReported, caches, now>>
    /\ UNCHANGED notSwVars

\* tryFallbackCDN: fetch(fallbackRequest) rejects: caught, the loop goes on
FallbackError ==
    /\ sw.pc = "fallbackFetch"
    /\ sw' = nextFallback([sw EXCEPT !.steps =
                              Append(@, [step |-> "cdn",
                                         domain |-> Head(sw.domains),
                                         ok |-> FALSE])],
                          Tail(sw.domains))
    /\ UNCHANGED <<clients, handled, connectionType, lastReported, caches, now>>
    /\ UNCHANGED notSwVars

\* tryFallbackCDN: await this.cacheResponse(...) resolves; return response
FallbackCacheResponseStored ==
    /\ sw.pc = "fallbackCacheResponse"
    /\ caches' = cacheResponse(caches, sw.url, sw.contentLength, now + 1)
    /\ now' = now + 1
    /\ sw' = settled(sw, [kind |-> "cdn", domain |-> Head(sw.domains)])
    /\ UNCHANGED <<clients, handled, connectionType, lastReported>>
    /\ UNCHANGED notSwVars

\* tryFallbackCDN: await this.cacheResponse(...) rejects inside the try: caught
\* as a failure of the domain, the loop goes on
FallbackCacheResponseFails ==
    /\ sw.pc = "fallbackCacheResponse"
    /\ sw' = nextFallback(sw, Tail(sw.domains))
    /\ UNCHANGED <<clients, handled, connectionType, lastReported, caches, now>>
    /\ UNCHANGED notSwVars

\* time passes while the worker handles no event
Elapse ==
    /\ sw.pc \in {"idle", "settled"}
    /\ \E d \in Elapses :
         /\ now + d <= MaxDays * Day
         /\ now' = now + d
    /\ UNCHANGED <<sw, clients, handled, connectionType, lastReported, caches>>
    /\ UNCHANGED notSwVars

\* handleImageFallback: the first cached response of any cache, else the
\* placeholder SVG
HandleImageFallback ==
    /\ sw.pc = "handleImageFallback"
    /\ LET i == firstCacheWith(caches, sw.url)
       IN sw' = IF i # 0
                THEN settled([sw EXCEPT !.steps = Append(@, [step |-> "cached"])],
                             [kind |-> "cached", cacheName |-> allCaches[i]])
                ELSE settled([sw EXCEPT !.steps = Append(@, [step |-> "placeholder"])],
                             [kind |-> "placeholder"])
    /\ UNCHANGED <<clients, handled, connectionType, lastReported, caches, now>>
    /\ UNCHANGED notSwVars

\* handleFetch: catch -> handleFallback: the first cached response of any
\* cache, else the 503 response
HandleFallback ==
    /\ sw.pc = "handleFallback"
    /\ LET i == firstCacheWith(caches, sw.url)
       IN sw' = IF i # 0
                THEN settled(sw, [kind |-> "cached", cacheName |-> allCaches[i]])
                ELSE settled(sw, [kind |-> "error", status |-> 503])
    /\ UNCHANGED <<clients, handled, connectionType, lastReported, caches, now>>
    /\ UNCHANGED notSwVars

-----------------------------------------------------------------------------
(* ImageOptimizationABTesting: user id, hash bucketing, stored assignments; *)
(* ImageOptimizationSystem.getABTestVariant                                *)

\* user ids of the form user_<Date.now()>_<random>, shortened
UserIds == {"user_1_a", "user_2_b", "user_3_c"}

ABExperimentIds == {"format-preference", "compression-strategy",
                    "lazy-loading-strategy", "cache-strategy"}

\* config.experiments[experimentId].variants in key order, weights in 1/10000
variantsOf(experimentId) ==
    CASE experimentId = "format-preference" ->
           <<[id |-> "avif-first", weight |-> 3000],
             [id |-> "webp-first", weight |-> 4000],
             [id |-> "smart-detection", weight |-> 3000]>>
      [] experimentId = "compression-strategy" ->
           <<[id |-> "aggressive", weight |-> 3000],
             [id |-> "balanced", weight |-> 4000],
             [id |-> "quality-focused", weight |-> 3000]>>
      [] experimentId = "lazy-loading-strategy" ->
           <<[id |-> "intersection-observer", weight |-> 4000],
             [id |-> "scroll-based", weight |-> 2000],
             [id |-> "predictive", weight |-> 4000]>>
      [] experimentId = "cache-strategy" ->
           <<[id |-> "aggressive-cache", weight |-> 3000],
             [id |-> "balanced-cache", weight |-> 4000],
             [id |-> "minimal-cache", weight |-> 3000]>>

\* str.charCodeAt(i) for the characters of a string
charCodes(str) ==
    CASE str = "user_1_a" ->
           <<117, 115, 101, 114, 95, 49, 95, 97>>
      [] str = "user_2_b" ->
           <<117, 115, 101, 114, 95, 50, 95, 98>>
      [] str = "user_3_c" ->
           <<117, 115, 101, 114, 95, 51, 95, 99>>
      [] str = "format-preference" ->
           <<102, 111, 114, 109, 97, 116, 45, 112, 114, 101, 102, 101, 114, 101, 110, 99, 101>>
      [] str = "compression-strategy" ->
           <<99, 111, 109, 112, 114, 101, 115, 115, 105, 111, 110, 45, 115, 116, 114, 97, 116, 101, 103, 121>>
      [] str = "lazy-loading-strategy" ->
           <<108, 97, 122, 121, 45, 108, 111, 97, 100, 105, 110, 103, 45, 115, 116, 114, 97, 116, 101, 103, 121>>
      [] str = "cache-strategy" ->
           <<99, 97, 99, 104, 101, 45, 115, 116, 114, 97, 116, 101, 103, 121>>

\* one turn of the loop of hashString on the 32-bit pattern of hash, kept as
\* its two 16-bit halves <<high, low>>: hash = ((hash << 5) - hash) + char
hashStep(hash, char) ==
    LET low == 31 * hash[2] + char
        high == 31 * hash[1] + (low \div 65536)
    IN <<high % 65536, low % 65536>>

RECURSIVE hashLoop(_, _, _, _)
\* the loop of hashString over the characters i..j, entered with hash: the
\* turns of the first half of the range, then those of the second half on
\* the value the first half left
hashLoop(hash, codes, i, j) ==
    IF i > j THEN hash
    ELSE IF i = j THEN hashStep(hash, codes[i])
    ELSE LET m == (i + j) \div 2 IN
         CHOOSE r \in { hashLoop(first, codes, m + 1, j) :
                           first \in {hashLoop(hash, codes, i, m)} } : TRUE

\* Math.abs of the signed 32-bit value of a pattern, as halves
abs32(hash) ==
    IF hash[1] < 32768 THEN hash
    ELSE IF hash[2] = 0 THEN <<65536 - hash[1], 0>>
    ELSE <<65535 - hash[1], 65536 - hash[2]>>

\* hashString(userId + experimentId) % 10000
hashMod10000(codes) ==
    LET h == abs32(hashLoop(<<0, 0>>, codes, 1, Len(codes)))
    IN ((h[1] % 10000) * (65536 % 10000) + h[2]) % 10000

RECURSIVE firstWithin(_, _, _)
\* the loop of assignToVariant: the first variant whose cumulative weight
\* reaches random
firstWithin(variants, cumulative, random) ==
    IF variants = <<>> THEN "none"
    ELSE IF random <= cumulative + Head(variants).weight THEN Head(variants).id
    ELSE firstWithin(Tail(variants), cumulative + Head(variants).weight, random)

\* assignToVariant(experimentId) for this.userId
assignToVariant(userId, experimentId) ==
    LET random == hashMod10000(charCodes(userId) \o charCodes(experimentId))
        variantId == firstWithin(variantsOf(experimentId), 0, random)
    IN IF variantId = "none" THEN variantsOf(experimentId)[1].id ELSE variantId

NoAssignments == [e \in ABExperimentIds |-> "undefined"]

EmptyStorage == [ab_test_user_id |-> "null", ab_test_assignments |-> NoAssignments,
                 ab_test_events |-> <<>>]

\* getABTestVariant with Math.random(): any variant of positive allocation
randomVariants == {a \in ABAssignments : \A e \in Experiments : a[e] # "undefined"}

\* config.dataCollection.batchSize
batchSize == 50

\* storeEventLocally keeping the first 1000 events of the log
storeEventLocally_keepsOldest(stored, eventData) ==
    LET pushed == Append(stored, eventData)
    IN IF Len(pushed) > 1000 THEN SubSeq(pushed, 1, 1000) ELSE pushed

\* storeEventLocally(eventData) on the parsed ab_test_events: push, then
\* splice(0, length - 1000) of a log longer than 1000
storeEventLocally(stored, eventData) ==
    LET pushed == Append(stored, eventData)
    IN IF Len(pushed) > 1000
       THEN SubSeq(pushed, Len(pushed) - 1000 + 1, Len(pushed))
       ELSE pushed

\* the instance, the storage and the network as the methods below see them
self == [abTesting |-> abTesting, localStorage |-> localStorage,
         sends |-> sends, tracked |-> tracked]

\* trackEvent(eventType, data): push on dataQueue, sendBatchedData() (up to its
\* await of fetch) when the queue has reached batchSize, storeEventLocally
trackEvent(s) ==
    LET eventData == s.tracked + 1
        pushed == Append(s.abTesting.dataQueue, eventData)
        full == Len(pushed) >= batchSize
    IN [abTesting |-> [s.abTesting EXCEPT !.dataQueue = IF full THEN <<>> ELSE pushed],
        localStorage |-> [s.localStorage EXCEPT
                             !.ab_test_events = storeEventLocally(@, eventData)],
        sends |-> IF full THEN s.sends \cup {pushed} ELSE s.sends,
        tracked |-> eventData]

\* initializeExperimentTracking: one experimentExposure event per assignment
\* (four after assignUserToExperiments), then the compressionConfig event of
\* initCompressionTracking
initializeExperimentTracking(s) ==
    LET exposure1 == trackEvent(s)
        exposure2 == trackEvent(exposure1)
        exposure3 == trackEvent(exposure2)
        exposure4 == trackEvent(exposure3)
    IN trackEvent(exposure4)

\* the values an operation leaves in the instance, the storage and the network
becomes(s) ==
    /\ abTesting' = s.abTesting
    /\ localStorage' = s.localStorage
    /\ sends' = s.sends
    /\ tracked' = s.tracked

\* assignUserToExperiments on the assignments held: assignToVariant for every
\* configured experiment without an entry
assignUserToExperiments(userId, userAssignments) ==
    [e \in ABExperimentIds |->
        IF userAssignments[e] # "undefined" THEN userAssignments[e]
        ELSE assignToVariant(userId, e)]

\* a page load: new ImageOptimizationSystem() draws this.abTestVariant;
\* new ImageOptimizationABTesting() reads or creates the user id
\* (getUserId), loads the stored assignments, assigns the experiments that
\* have none, saves them and tracks the exposures (init). The fetches of
\* the page left are no longer followed.
PageLoad ==
    /\ sessions < MaxSessions
    /\ sessions' = sessions + 1
    /\ abTestVariant' \in randomVariants
    /\ \E generated \in UserIds :
         LET userId == IF localStorage.ab_test_user_id = "null"
                       THEN generated ELSE localStorage.ab_test_user_id
             stored == localStorage.ab_test_assignments
             userAssignments == assignUserToExperiments(userId, stored)
         IN becomes(initializeExperimentTracking(
                [abTesting |-> [userId |-> userId,
                                userAssignments |-> userAssignments,
                                dataQueue |-> <<>>],
                 localStorage |-> [localStorage EXCEPT
                                      !.ab_test_user_id = userId,
                                      !.ab_test_assignments = userAssignments],
                 sends |-> {},
                 tracked |-> tracked]))
    /\ UNCHANGED <<delivered, calls>>
    /\ UNCHANGED notAbVars

\* the site data of the origin is cleared between two sessions
ClearStorage ==
    /\ localStorage # EmptyStorage
    /\ localStorage' = EmptyStorage
    /\ UNCHANGED <<abTesting, sessions, abTestVariant, sends, delivered, tracked,
                   calls>>
    /\ UNCHANGED notAbVars

\* property names every object inherits from Object.prototype
InheritedKeys == {"constructor"}

\* the experiments a caller of forceVariant or removeFromExperiment names
CalledExperimentIds == {"format-preference", "cache-strategy"}

\* the variant ids a caller of forceVariant passes: a variant of each of
\* these experiments, and an inherited key
ForcedVariantIds == {"webp-first", "minimal-cache"} \cup InheritedKeys

\* experiment.variants[variantId] is truthy: an own key of the variants object
\* or an inherited one
hasVariant(experimentId, variantId) ==
    \/ \E i \in DOMAIN variantsOf(experimentId) :
          variantsOf(experimentId)[i].id = variantId
    \/ variantId \in InheritedKeys

\* forceVariant(experimentId, variantId) returning true: set, save, trackEvent
ForceVariant ==
    /\ sessions > 0
    /\ calls < MaxEvents
    /\ \E experimentId \in CalledExperimentIds, variantId \in ForcedVariantIds :
         /\ hasVariant(experimentId, variantId)
         /\ LET userAssignments ==
                    [abTesting.userAssignments EXCEPT ![experimentId] = variantId]
            IN becomes(trackEvent(
                   [self EXCEPT
                       !.abTesting.userAssignments = userAssignments,
                       !.localStorage.ab_test_assignments = userAssignments]))
    /\ calls' = calls + 1
    /\ UNCHANGED <<sessions, abTestVariant, delivered>>
    /\ UNCHANGED notAbVars

\* removeFromExperiment(experimentId): delete, save, trackEvent
RemoveFromExperiment ==
    /\ sessions > 0
    /\ calls < MaxEvents
    /\ \E experimentId \in CalledExperimentIds :
         LET userAssignments ==
                 [abTesting.userAssignments EXCEPT ![experimentId] = "undefined"]
         IN becomes(trackEvent(
                [self EXCEPT
                    !.abTesting.userAssignments = userAssignments,
                    !.localStorage.ab_test_assignments = userAssignments]))
    /\ calls' = calls + 1
    /\ UNCHANGED <<sessions, abTestVariant, delivered>>
    /\ UNCHANGED notAbVars

\* assignUserToExperiments() called again: assign what is missing, save
AssignUserToExperiments ==
    /\ sessions > 0
    /\ calls < MaxEvents
    /\ LET userAssignments ==
               assignUserToExperiments(abTesting.userId, abTesting.userAssignments)
       IN /\ abTesting' = [abTesting EXCEPT !.userAssignments = userAssignments]
          /\ localStorage' = [localStorage EXCEPT
                                 !.ab_test_assignments = userAssignments]
    /\ calls' = calls + 1
    /\ UNCHANGED <<sessions, abTestVariant, sends, delivered, tracked>>
    /\ UNCHANGED notAbVars

\* an event listener of the instance calls trackEvent
TrackEvent ==
    /\ sessions > 0
    /\ calls < MaxEvents
    /\ becomes(trackEvent(self))
    /\ calls' = calls + 1
    /\ UNCHANGED <<sessions, abTestVariant, delivered>>
    /\ UNCHANGED notAbVars

\* the set of the events of a batch
eventsOf(batch) == {batch[i] : i \in DOMAIN batch}

\* the interval timer: sendBatchedData() up to its await of fetch
SendBatchedData ==
    /\ abTesting.dataQueue # <<>>
    /\ sends' = sends \cup {abTesting.dataQueue}
    /\ abTesting' = [abTesting EXCEPT !.dataQueue = <<>>]
    /\ UNCHANGED <<localStorage, sessions, abTestVariant, delivered, tracked, calls>>
    /\ UNCHANGED notAbVars

\* beforeunload, or visibilitychange to hidden: sendBatchedData(true);
\* navigator.sendBeacon returns whether the user agent queued the payload,
\* and the value is not read
SendBeacon ==
    /\ abTesting.dataQueue # <<>>
    /\ \E queued \in BOOLEAN :
         delivered' = IF queued THEN delivered \cup eventsOf(abTesting.dataQueue)
                      ELSE delivered
    /\ abTesting' = [abTesting EXCEPT !.dataQueue = <<>>]
    /\ UNCHANGED <<localStorage, sessions, abTestVariant, sends, tracked, calls>>
    /\ UNCHANGED notAbVars

\* the fetch of a batch resolves with a response, whose status is not read
FetchResolves ==
    /\ \E batch \in sends, ok \in BOOLEAN :
         /\ sends' = sends \ {batch}
         /\ delivered' = IF ok THEN delivered \cup eventsOf(batch) ELSE delivered
    /\ UNCHANGED <<localStorage, abTesting, sessions, abTestVariant, tracked, calls>>
    /\ UNCHANGED notAbVars

\* the fetch of a batch rejects: dataQueue.unshift(...payload.events)
FetchRejects ==
    /\ \E batch \in sends :
         /\ sends' = sends \ {batch}
         /\ abTesting' = [abTesting EXCEPT !.dataQueue = batch \o @]
    /\ UNCHANGED <<localStorage, sessions, abTestVariant, delivered, tracked, calls>>
    /\ UNCHANGED notAbVars

-----------------------------------------------------------------------------
(* PerformanceMonitor: recordMetric, recordImageMetric, sendMetrics *)

\* names of metrics; imageLoad is recorded together with an image metric
MetricNames == {"LCP", "imageLoad"}

ImageSources == {"hero.jpg"}

NoMetrics == [name \in MetricNames |-> <<>>]

NoImageMetrics == [src \in ImageSources |-> 0]

\* a sequence without its i-th element
removeAt(seq, i) == SubSeq(seq, 1, i - 1) \o SubSeq(seq, i + 1, Len(seq))

\* recordMetric(name, data) of an observer callback
RecordMetric ==
    /\ recorded < MaxMetrics
    /\ recorded' = recorded + 1
    /\ metrics' = [metrics EXCEPT !["LCP"] = Append(@, recorded + 1)]
    /\ UNCHANGED <<imageMetrics, reports>>
    /\ UNCHANGED notPmVars

\* trackImageLoad: recordImageMetric(img.src, imageData), then
\* recordMetric('imageLoad', imageData)
TrackImageLoad ==
    /\ recorded < MaxMetrics
    /\ recorded' = recorded + 1
    /\ \E src \in ImageSources :
         imageMetrics' = [imageMetrics EXCEPT ![src] = recorded + 1]
    /\ metrics' = [metrics EXCEPT !["imageLoad"] = Append(@, recorded + 1)]
    /\ UNCHANGED reports
    /\ UNCHANGED notPmVars

\* the interval timer: sendMetrics() up to its await of fetch
SendMetrics ==
    /\ metrics # NoMetrics
    /\ Len(reports) < MaxReports
    /\ reports' = Append(reports, [metrics |-> metrics, imageMetrics |-> imageMetrics])
    /\ UNCHANGED <<metrics, imageMetrics, recorded>>
    /\ UNCHANGED notPmVars

\* beforeunload, or visibilitychange to hidden: sendMetrics(true) hands the
\* payload to navigator.sendBeacon and calls clearMetrics
SendMetricsBeacon ==
    /\ metrics # NoMetrics
    /\ metrics' = NoMetrics
    /\ imageMetrics' = NoImageMetrics
    /\ UNCHANGED <<reports, recorded>>
    /\ UNCHANGED notPmVars

\* the fetch of a report resolves: clearMetrics()
ReportResolves ==
    /\ \E i \in DOMAIN reports : reports' = removeAt(reports, i)
    /\ metrics' = NoMetrics
    /\ imageMetrics' = NoImageMetrics
    /\ UNCHANGED recorded
    /\ UNCHANGED notPmVars

\* the fetch of a report rejects: the catch block logs a warning
ReportRejects ==
    /\ \E i \in DOMAIN reports : reports' = removeAt(reports, i)
    /\ UNCHANGED <<metrics, imageMetrics, recorded>>
    /\ UNCHANGED notPmVars

-----------------------------------------------------------------------------
(* ImageOptimizationSW: handleActivate and cleanupOldCaches *)

\* caches of the origin that are not of the current version
OldCaches == {<<"images", "v1.1.0">>, <<"static", "v1.1.0">>, <<"fonts">>}

IdleActivation == [pc |-> "idle", cacheNames |-> {}, deleting |-> {}]

\* cleanupOldCaches with the filter inverted
CleanupKeys_deletesCurrent ==
    /\ activation.pc = "keys"
    /\ activation' = [pc |-> "deleting", cacheNames |-> DOMAIN caches,
                      deleting |-> {cacheName \in DOMAIN caches :
                                       cacheName \in CurrentCaches}]
    /\ UNCHANGED caches
    /\ UNCHANGED notActivationVars

\* 'activate' listener: handleActivate calls cleanupOldCaches, which awaits
\* caches.keys()
HandleActivate ==
    /\ activation.pc = "idle"
    /\ activation' = [activation EXCEPT !.pc = "keys"]
    /\ UNCHANGED caches
    /\ UNCHANGED notActivationVars

\* caches.keys() resolves: every name that is not a value of CACHE_NAMES is
\* passed to caches.delete
CleanupKeys ==
    /\ activation.pc = "keys"
    /\ activation' = [pc |-> "deleting", cacheNames |-> DOMAIN caches,
                      deleting |-> {cacheName \in DOMAIN caches :
                                       cacheName \notin CurrentCaches}]
    /\ UNCHANGED caches
    /\ UNCHANGED notActivationVars

\* one caches.delete(cacheName) takes effect
CacheDeleted ==
    /\ activation.pc = "deleting"
    /\ \E cacheName \in activation.deleting :
         /\ caches' = [n \in DOMAIN caches \ {cacheName} |-> caches[n]]
         /\ activation' = [activation EXCEPT !.deleting = @ \ {cacheName}]
    /\ UNCHANGED notActivationVars

\* Promise.all(deletionPromises) resolves and cleanupOldCaches returns
CleanupDone ==
    /\ activation.pc = "deleting"
    /\ activation.deleting = {}
    /\ activation' = [activation EXCEPT !.pc = "done"]
    /\ UNCHANGED caches
    /\ UNCHANGED notActivationVars

-----------------------------------------------------------------------------
(* Specifications *)

\* the selection state of a page whose probes found nothing and whose A/B
\* testing is disabled
SelIdle ==
    /\ deviceCapabilities = [effectiveType |-> "4g", saveData |-> FALSE]
    /\ formatSupport = [avif |-> FALSE, webp |-> FALSE, jpg |-> TRUE]
    /\ abTestVariant = [e \in Experiments |-> "undefined"]
    /\ result = NoResult

\* a desktop profile that never called optimizeImage
DimIdle ==
    /\ viewport = [width |-> 1280]
    /\ devicePixelRatio = 4
    /\ descriptor = NoDescriptor

\* an initialized system that was never called
InitIdle ==
    /\ probes = [avif |-> "onerror", webp |-> "onerror", detect |-> "fulfilled"]
    /\ intersectionObserver = "observer"
    /\ called = NoCall

\* a page without lazily loaded images
LazyIdle ==
    /\ lazyInit = "ready"
    /\ connectivity = "online"
    /\ img = [e \in Elements |-> NoImg]
    /\ observed = {}
    /\ previousIsIntersecting = {}
    /\ queuedEntries = {}

\* a service worker with empty caches and no cacheResponse in progress
CacheIdle ==
    /\ caches = [n \in CurrentCaches |-> <<>>]
    /\ now = 0
    /\ flow = [f \in Flows |-> IdleFlow]

\* a service worker handling no fetch event
SwIdle ==
    /\ sw = IdleSW
    /\ clients = 0
    /\ handled = 0
    /\ connectionType = detectCapabilities
    /\ lastReported = "none"

\* a browser profile that never loaded the page
AbIdle ==
    /\ localStorage = EmptyStorage
    /\ abTesting = [userId |-> "null", userAssignments |-> NoAssignments,
                    dataQueue |-> <<>>]
    /\ sessions = 0
    /\ sends = {}
    /\ delivered = {}
    /\ tracked = 0
    /\ calls = 0

\* a performance monitor that has recorded nothing yet
PmIdle ==
    /\ metrics = NoMetrics
    /\ imageMetrics = NoImageMetrics
    /\ reports = <<>>
    /\ recorded = 0

\* a service worker that is not being activated
ActivationIdle == activation = IdleActivation

\* Format and quality selection over every capability snapshot
InitSel ==
    /\ LazyIdle
    /\ CacheIdle
    /\ SwIdle
    /\ AbIdle
    /\ PmIdle
    /\ ActivationIdle
    /\ InitIdle
    /\ DimIdle
    /\ deviceCapabilities \in Connections
    /\ formatSupport \in FormatSupports
    /\ abTestVariant \in ABAssignments
    /\ result = NoResult

NextSel == SelectFormat \/ CalcQuality \/ ConnectionChange

SpecSel == InitSel /\ [][NextSel]_vars

\* The lazy-load scheduler
InitLazy ==
    /\ lazyInit = "probing"
    /\ connectivity = "online"
    /\ img \in [Elements -> {NoImg} \cup MarkupImgs]
    /\ observed = {}
    /\ previousIsIntersecting = {}
    /\ queuedEntries = {}
    /\ SelIdle
    /\ CacheIdle
    /\ SwIdle
    /\ AbIdle
    /\ PmIdle
    /\ ActivationIdle
    /\ InitIdle
    /\ DimIdle

NextLazy ==
    \/ InitDone
    \/ Offline
    \/ Online
    \/ \E e \in Elements : CreateOptimizedImage(e)
    \/ \E e \in Elements : Attach(e)
    \/ \E e \in Elements : Scroll(e)
    \/ \E e \in Elements : UpdateObservations(e)
    \/ \E e \in Elements : IntersectionCallback(e)
    \/ \E e \in Elements : LoadSucceeds(e)
    \/ \E e \in Elements : LoadFails(e)

SpecLazy == InitLazy /\ [][NextLazy]_vars

\* The service worker's caches under concurrent cacheResponse calls
InitCache ==
    /\ CacheIdle
    /\ SelIdle
    /\ LazyIdle
    /\ SwIdle
    /\ AbIdle
    /\ PmIdle
    /\ ActivationIdle
    /\ InitIdle
    /\ DimIdle

NextCache ==
    \/ \E f \in Flows : CacheResponse(f)
    \/ \E f \in Flows : CachePut(f)
    \/ \E f \in Flows : CachePutFails(f)
    \/ \E f \in Flows : SweepKeys(f)
    \/ \E f \in Flows : SweepMatch(f)
    \/ \E f \in Flows : SweepEvict(f)

SpecCache == InitCache /\ [][NextCache]_vars

\* an asset stored without sw-cached-at (cache.addAll at install)
precached(url) == [request |-> url, contentLength |-> 0, cachedAt |-> 0]

\* The service worker handling image requests one after the other; the static
\* cache may hold a precached copy of a requested URL
InitSW ==
    /\ sw = IdleSW
    /\ clients \in {0, 1}
    /\ handled = 0
    /\ connectionType = detectCapabilities
    /\ lastReported = "none"
    /\ now = 0
    /\ flow = [f \in Flows |-> IdleFlow]
    /\ \E static \in {<<>>} \cup {<<precached(url)>> : url \in Hostnames} :
         caches = [n \in CurrentCaches |->
                     IF n = CACHE_NAMES.static THEN static ELSE <<>>]
    /\ SelIdle
    /\ LazyIdle
    /\ AbIdle
    /\ PmIdle
    /\ ActivationIdle
    /\ InitIdle
    /\ DimIdle

\* the steps the worker, its timer and the network take by themselves
WorkerStep ==
    \/ HandleImageRequest
    \/ GetFormatSupport
    \/ TimerFires
    \/ FetchOk
    \/ FetchNotOk
    \/ FetchError
    \/ FetchAborted
    \/ CacheResponseStored
    \/ CacheResponseFails
    \/ CacheResponseSweepFails
    \/ FallbackOk
    \/ FallbackNotOk
    \/ FallbackError
    \/ FallbackCacheResponseStored
    \/ FallbackCacheResponseFails
    \/ HandleImageFallback
    \/ HandleFallback

NextSW ==
    \/ HandleFetch
    \/ ClientAnswers
    \/ UpdateDeviceCapabilities
    \/ HandleImageRequest
    \/ GetFormatSupport
    \/ TimerFires
    \/ FetchOk
    \/ FetchNotOk
    \/ FetchError
    \/ FetchAborted
    \/ CacheResponseStored
    \/ CacheResponseFails
    \/ CacheResponseSweepFails
    \/ FallbackOk
    \/ FallbackNotOk
    \/ FallbackError
    \/ FallbackCacheResponseStored
    \/ FallbackCacheResponseFails
    \/ HandleImageFallback
    \/ HandleFallback

SpecSW == InitSW /\ [][NextSW]_vars

\* The same, where the worker's own steps, its timer and the network always
\* go on; a client is free never to answer
SpecSWFair == SpecSW /\ WF_vars(WorkerStep)

\* The service worker without clients, over days
InitSWAged ==
    /\ SwIdle
    /\ CacheIdle
    /\ SelIdle
    /\ LazyIdle
    /\ AbIdle
    /\ PmIdle
    /\ ActivationIdle
    /\ InitIdle
    /\ DimIdle

NextSWAged ==
    \/ HandleFetch
    \/ Elapse
    \/ WorkerStep

SpecSWAged == InitSWAged /\ [][NextSWAged]_vars

\* The sessions of one browser profile
InitAB ==
    /\ AbIdle
    /\ PmIdle
    /\ ActivationIdle
    /\ InitIdle
    /\ DimIdle
    /\ SelIdle
    /\ LazyIdle
    /\ CacheIdle
    /\ SwIdle

NextAB == PageLoad \/ ClearStorage

SpecAB == InitAB /\ [][NextAB]_vars

\* The sessions of one browser profile with calls of forceVariant,
\* removeFromExperiment and assignUserToExperiments
NextAssign ==
    \/ PageLoad
    \/ ForceVariant
    \/ RemoveFromExperiment
    \/ AssignUserToExperiments

SpecAssign == InitAB /\ [][NextAssign]_vars

\* events in the log of the sessions before, and events in the queue of the
\* session examined: 5 after the construction, 48 later on
PreviousEvents == {0, 994}
QueuedEvents == {5, 48}

\* One session of ImageOptimizationABTesting: its event queue, the sends
\* and the persisted log
InitABQueue ==
    /\ \E previous \in PreviousEvents, queued \in QueuedEvents :
         /\ tracked = previous + queued
         /\ delivered = 1..previous
         /\ abTesting =
              [userId |-> "user_1_a",
               userAssignments |-> assignUserToExperiments("user_1_a", NoAssignments),
               dataQueue |-> [i \in 1..queued |-> previous + i]]
         /\ localStorage =
              [ab_test_user_id |-> "user_1_a",
               ab_test_assignments |-> assignUserToExperiments("user_1_a", NoAssignments),
               ab_test_events |->
                   [i \in 1..min(1000, previous + queued) |->
                       previous + queued - min(1000, previous + queued) + i]]
    /\ sessions = 1
    /\ sends = {}
    /\ calls = 0
    /\ PmIdle
    /\ ActivationIdle
    /\ InitIdle
    /\ DimIdle
    /\ SelIdle
    /\ LazyIdle
    /\ CacheIdle
    /\ SwIdle

NextABQueue ==
    \/ TrackEvent
    \/ SendBatchedData
    \/ SendBeacon
    \/ FetchResolves
    \/ FetchRejects

SpecABQueue == InitABQueue /\ [][NextABQueue]_vars

\* The performance monitor of a page without an A/B testing instance (no
\* listener of 'performanceMetric')
InitPM ==
    /\ PmIdle
    /\ AbIdle
    /\ ActivationIdle
    /\ InitIdle
    /\ DimIdle
    /\ SelIdle
    /\ LazyIdle
    /\ CacheIdle
    /\ SwIdle

NextPM ==
    \/ RecordMetric
    \/ TrackImageLoad
    \/ SendMetrics
    \/ SendMetricsBeacon
    \/ ReportResolves
    \/ ReportRejects

SpecPM == InitPM /\ [][NextPM]_vars

\* The activation of a new service worker over the caches the origin holds
InitActivate ==
    /\ activation = IdleActivation
    /\ \E old \in SUBSET OldCaches, url \in Hostnames :
         caches \in [CurrentCaches \cup old -> {<<>>, <<precached(url)>>}]
    /\ now = 0
    /\ flow = [f \in Flows |-> IdleFlow]
    /\ SwIdle
    /\ PmIdle
    /\ AbIdle
    /\ InitIdle
    /\ DimIdle
    /\ SelIdle
    /\ LazyIdle

NextActivate ==
    \/ HandleActivate
    \/ CleanupKeys
    \/ CacheDeleted
    \/ CleanupDone

SpecActivate == InitActivate /\ [][NextActivate]_vars

\* Dimensions, srcset and placeholder over every device profile
InitDim ==
    /\ \E width \in ViewportWidths : viewport = [width |-> width]
    /\ devicePixelRatio \in DevicePixelRatios
    /\ deviceCapabilities \in ProfileConnections
    /\ descriptor = NoDescriptor
    /\ formatSupport = [avif |-> FALSE, webp |-> FALSE, jpg |-> TRUE]
    /\ abTestVariant = [e \in Experiments |-> "undefined"]
    /\ result = NoResult
    /\ LazyIdle
    /\ CacheIdle
    /\ SwIdle
    /\ AbIdle
    /\ PmIdle
    /\ ActivationIdle
    /\ InitIdle

NextDim == OptimizeImage \/ Resize

SpecDim == InitDim /\ [][NextDim]_vars

\* The constructor, the asynchronous init() it starts, and the public calls
InitInit ==
    /\ lazyInit = "avifProbe"
    /\ probes = NoProbes
    /\ formatSupport = undefinedSupport
    /\ intersectionObserver = "null"
    /\ called = NoCall
    /\ abTestVariant \in ABAssignments
    /\ deviceCapabilities = [effectiveType |-> "4g", saveData |-> FALSE]
    /\ result = NoResult
    /\ connectivity = "online"
    /\ img = [e \in Elements |-> NoImg]
    /\ observed = {}
    /\ previousIsIntersecting = {}
    /\ queuedEntries = {}
    /\ DimIdle
    /\ CacheIdle
    /\ SwIdle
    /\ AbIdle
    /\ PmIdle
    /\ ActivationIdle

NextInit ==
    \/ AvifProbeSettles
    \/ WebpProbeSettles
    \/ CallOptimizeImage
    \/ \E e \in Elements : CallCreateOptimizedImage(e)

SpecInit == InitInit /\ [][NextInit]_vars

-----------------------------------------------------------------------------
(* Claims about format and quality selection (SpecSel) *)

formatVariant == variantOf("format-preference", "smart-detection")

\* C1 (as stated): with saveData set, selectOptimalFormat returns jpg whatever
\* the format-preference variant and whatever the detected support.
C1_SaveDataAlwaysJpg ==
    (result.op = "format" /\ deviceCapabilities.saveData) => result.format = "jpg"

\* C1 (amended): with saveData set, selectOptimalFormat returns jpg when the
\* variant is smart-detection or missing; under avif-first and webp-first
\* saveData is not consulted and the variant's first supported format is returned.
C1_SaveDataJpgUnderSmartDetection ==
    (result.op = "format" /\ deviceCapabilities.saveData) =>
        CASE formatVariant = "avif-first" ->
               result.format = IF formatSupport.avif THEN "avif"
                               ELSE IF formatSupport.webp THEN "webp" ELSE "jpg"
          [] formatVariant = "webp-first" ->
               result.format = IF formatSupport.webp THEN "webp" ELSE "jpg"
          [] OTHER -> result.format = "jpg"

C1_Witness ==
    /\ result.op = "format"
    /\ deviceCapabilities.saveData
    /\ formatVariant = "smart-detection"
    /\ formatSupport.avif /\ formatSupport.webp
    /\ result.format = "jpg"

\* C2: for every requested quality, compression variant and connection
\* profile, calculateOptimalQuality returns an integer in [30,95].
C2_QualityInRange ==
    result.op = "quality" => result.quality \in 30..95

\* both clamps act: a requested quality whose product lies outside [30,95]
C2_Witness ==
    /\ result.op = "quality"
    /\ result.requested.given
    /\ \/ result.requested.value < 30 /\ result.quality = 30
       \/ result.requested.value > 105 /\ result.quality = 95

\* the first supported format of a preference order, jpg when none is
RECURSIVE firstSupported(_)
firstSupported(order) ==
    IF order = <<>> THEN "jpg"
    ELSE IF formatSupport[Head(order)] THEN Head(order)
    ELSE firstSupported(Tail(order))

\* C23: when saveData is not set, format selection follows the policy table for
\* every support set and network class: avif-first gives avif, else webp, else
\* jpg; webp-first gives webp, else jpg; smart-detection (and a missing variant)
\* gives avif unless the network class is slow-2g, else webp, else jpg. Support
\* {avif, webp} under smart-detection gives avif on 4g and webp on slow-2g.
C23_FormatFollowsPolicyTable ==
    (result.op = "format" /\ ~deviceCapabilities.saveData) =>
        /\ formatVariant = "avif-first" =>
              result.format = firstSupported(<<"avif", "webp">>)
        /\ formatVariant = "webp-first" =>
              result.format = firstSupported(<<"webp">>)
        /\ formatVariant = "smart-detection" =>
              result.format =
                  IF deviceCapabilities.effectiveType = "slow-2g"
                  THEN firstSupported(<<"webp">>)
                  ELSE firstSupported(<<"avif", "webp">>)
        /\ (/\ formatVariant = "smart-detection"
            /\ formatSupport.avif /\ formatSupport.webp) =>
              /\ deviceCapabilities.effectiveType = "4g" => result.format = "avif"
              /\ deviceCapabilities.effectiveType = "slow-2g" =>
                    result.format = "webp"

\* smart-detection on slow-2g with avif and webp supported returns webp
C23_Witness ==
    /\ result.op = "format"
    /\ ~deviceCapabilities.saveData
    /\ deviceCapabilities.effectiveType = "slow-2g"
    /\ abTestVariant["format-preference"] \in {"smart-detection", "undefined"}
    /\ formatSupport.avif /\ formatSupport.webp
    /\ result.format = "webp"

\* clamp(round(q * v * n), 30, 95) in exact arithmetic, round taking a half up
clampedExactProduct(q, v, n) ==
    max(30, min(95, (2 * q * v * n + 100) \div 200))

\* C24: the computed quality equals clamp(round(q * v * n), 30, 95), where q is
\* the requested quality (80 when none is given), v is 0.8 for aggressive, 1.1
\* for quality-focused and 1.0 otherwise, and n is 0.6 with saveData, otherwise
\* 0.7 for slow-2g, 0.8 for 2g, 0.9 for 3g and 1.0 for any other class.
C24_QualityIsClampedProduct ==
    result.op = "quality" =>
        result.quality =
            clampedExactProduct(
                IF result.requested.given THEN result.requested.value ELSE 80,
                variantTenths(variantOf("compression-strategy", "balanced")),
                connectionTenths(deviceCapabilities))

-----------------------------------------------------------------------------
(* Claims about dimensions, srcset and placeholder (SpecDim) *)

optimized == descriptor.op = "optimizeImage"

\* C21: every width and height that optimizeImage places in its descriptor
\* (the main URL, each srcset entry, the placeholder URL) is positive, for all
\* positive integer requested dimensions and all device profiles.
C21_DimensionsPositive ==
    optimized =>
        /\ descriptor.src.w > 0 /\ descriptor.src.h > 0
        /\ \A i \in 1..Len(descriptor.srcset) :
              /\ descriptor.srcset[i].url.w > 0
              /\ descriptor.srcset[i].url.h > 0
        /\ descriptor.hasPlaceholder =>
              descriptor.placeholder.w > 0 /\ descriptor.placeholder.h > 0

\* C22: for every base width generateSrcSet returns exactly 4 entries, in the
\* order of the multipliers 0.5, 1, 1.5, 2 applied to the base width, and their
\* widths are strictly ascending.
C22_SrcSetFourAscending ==
    optimized =>
        /\ Len(descriptor.srcset) = 4
        /\ \A i \in 1..4 :
              descriptor.srcset[i].descriptor =
                  roundRatio(descriptor.dimensions.width * i, 2)
        /\ \A i \in 1..3 :
              descriptor.srcset[i].descriptor < descriptor.srcset[i + 1].descriptor

\* the width the claim gives for a requested one: unchanged with saveData or a
\* ratio of at most 1, else multiplied by min(devicePixelRatio, 2) and rounded
\* as Math.round does
dprScaled(requested) ==
    IF deviceCapabilities.saveData \/ devicePixelRatio <= 4 THEN requested
    ELSE IF devicePixelRatio >= 8 THEN 2 * requested
    ELSE (2 * requested * devicePixelRatio + 4) \div 8

\* the mobile constraint leaves the scaled width alone
unconstrained ==
    \/ getDeviceType(viewport.width) # "mobile"
    \/ 10 * dprScaled(descriptor.dimensions.originalWidth) <= 9 * viewport.width

\* C28: device-pixel-ratio scaling is capped at 2 and skipped when saveData is
\* set: where the mobile constraint does not apply, the computed dimensions
\* equal the requested ones with saveData, for every devicePixelRatio, and the
\* requested ones multiplied by min(devicePixelRatio, 2) without it when
\* devicePixelRatio > 1.
C28_DprScalingCappedAndSkipped ==
    (optimized /\ unconstrained) =>
        /\ descriptor.dimensions.width =
              dprScaled(descriptor.dimensions.originalWidth)
        /\ descriptor.dimensions.height =
              dprScaled(descriptor.dimensions.originalHeight)

\* a ratio of 3 without saveData doubles the dimensions
C28_Witness ==
    /\ optimized /\ unconstrained
    /\ devicePixelRatio = 12
    /\ descriptor.dimensions.originalWidth = 400
    /\ ~deviceCapabilities.saveData
    /\ descriptor.dimensions.width = 800

-----------------------------------------------------------------------------
(* Claims about init() and the public calls (SpecInit) *)

\* init() is past its await of detectFormatSupport
detected == lazyInit \in {"ready", "basic"}

\* C27: detectFormatSupport always fulfils and never rejects, whatever the
\* outcome of each probe; the support it sets has jpg = true, and avif (webp)
\* true exactly when its probe decoded successfully.
C27_DetectionFulfilsWithProbedSupport ==
    detected =>
        /\ probes.detect = "fulfilled"
        /\ formatSupport.jpg
        /\ formatSupport.avif <=> probes.avif = "onload"
        /\ formatSupport.webp <=> probes.webp = "onload"

\* a probe that throws and a probe that decodes
C27_Witness ==
    /\ detected
    /\ probes.avif = "throws" /\ probes.webp = "onload"
    /\ formatSupport = [avif |-> FALSE, webp |-> TRUE, jpg |-> TRUE]

\* C29: format selection never runs before probing has finished: whenever
\* optimizeImage or createOptimizedImage executes, formatSupport has been set
\* and the intersection observer exists.
C29_CallsFindInitFinished ==
    called.op # "none" => called.formatSupportSet /\ called.observerExists

-----------------------------------------------------------------------------
(* Claims about the lazy-load scheduler (SpecLazy) *)

\* a step in which loadImage starts a load of e
startsLoad(e) == img'[e].inflight = img[e].inflight + 1

\* C5 (as stated): loaded and errored are terminal: once an element's load has
\* succeeded or has failed (handleImageError ran), no later event starts
\* another load of that element.
C5_LoadedAndErroredTerminal ==
    [][\A e \in Elements :
          (img[e].loaded \/ img[e].errored) => ~startsLoad(e)]_vars

\* C5 (amended): loaded is terminal: once an element's load has succeeded no
\* later event starts another load of it. (An errored element is still
\* pending: an 'online' event observes it again and its next intersection
\* starts another load.)
C5_LoadedTerminal ==
    [][\A e \in Elements : img[e].loaded => ~startsLoad(e)]_vars

\* a loaded element whose intersection entry is about to reach loadImage
C5_Witness ==
    \E e \in Elements : img[e].loaded /\ e \in queuedEntries

\* C6: while the page is offline no image element makes the pending->loading
\* transition, including elements created by createOptimizedImage while offline.
C6_NoLoadStartsOffline ==
    [][connectivity = "offline" => \A e \in Elements : ~startsLoad(e)]_vars

\* C7: on the 'online' event every element that is still pending (has data-src
\* and is not marked loaded) is tracked again by the observer.
C7_OnlineTracksEveryPending ==
    [][(connectivity = "offline" /\ connectivity' = "online") =>
          \A e \in Elements :
              (img[e].pos # "none" /\ ~img[e].loaded) => e \in observed']_vars

\* a step in which e becomes marked loaded
marksLoaded(e) == ~img[e].loaded /\ img'[e].loaded

\* C25: a tracked element that enters the proximity region and whose fetch
\* succeeds goes pending -> loading -> loaded in that order: the step that
\* starts its load unobserves it, and it is marked loaded only by the success
\* of a fetch in flight, which makes src the real source and clears the blur.
C25_PendingLoadingLoaded ==
    [][\A e \in Elements :
          /\ startsLoad(e) =>
                /\ ~img[e].loaded
                /\ e \notin observed'
                /\ ~img'[e].loaded
          /\ marksLoaded(e) =>
                /\ img[e].inflight > 0
                /\ img'[e].inflight = img[e].inflight - 1
                /\ img'[e].src = "real"
                /\ ~img'[e].blur]_vars

\* an element that showed its blurred placeholder and is now loaded
C25_Witness ==
    \E e \in Elements :
        /\ img[e].placeholder
        /\ img[e].loaded /\ img[e].src = "real" /\ ~img[e].blur
        /\ img[e].inflight = 0
        /\ e \notin observed

\* C26: when the fetch of an element's real source fails, a configured fallback
\* source is tried once (it becomes the src); without one the element gets the
\* class image-error and shows the generated placeholder graphic. The failure
\* path never marks the element loaded.
C26_FailureFallbackOrPlaceholder ==
    [][\A e \in Elements :
          LoadFails(e) =>
              /\ img'[e].loaded = img[e].loaded
              /\ IF img[e].fallbackSrc
                 THEN img'[e].src = "fallback"
                 ELSE img'[e].errorClass /\ img'[e].src = "default"]_vars

\* C30: for each image element at most one load is in flight at any time.
C30_AtMostOneLoadInFlight ==
    \A e \in Elements : img[e].inflight <= 1

-----------------------------------------------------------------------------
(* Claims about cache management (SpecCache) *)

RECURSIVE totalSize(_)
\* the summed size of the entries of a cache, each measured as manageCacheSize
\* measures it (content-length, or 1024 without the header)
totalSize(entries) ==
    IF entries = <<>> THEN 0 ELSE sizeOf(Head(entries)) + totalSize(Tail(entries))

\* no cacheResponse (put or eviction pass) is in progress
noPutInProgress == \A f \in Flows : flow[f].pc = "idle"

\* C3: after the eviction passes have finished and no put is in progress, the
\* summed size of the entries of each partition is at most its budget.
C3_WithinBudgetAfterPass ==
    noPutInProgress =>
        \A n \in CurrentCaches : totalSize(caches[n]) <= maxSizeOf(n)

\* the entries of a cache that the pass of flow f matched (its responses)
matchedBy(f, entries) ==
    { i \in 1..Len(entries) :
        \E j \in 1..Len(flow[f].responses) : flow[f].responses[j] = entries[i] }

\* C4: an eviction pass removes entries in ascending cachedAt order: whenever
\* it removes an entry, every entry it leaves in the partition has a cachedAt
\* at least as large as the removed one, also when some cached key had no
\* matching response at the time of the pass. (Stated over the entries the
\* pass matched: entries put or replaced after its match are not counted.)
C4_EvictsOldestFirst ==
    [][\A f \in Flows :
          (flow[f].pc = "evict" /\ flow'[f] # flow[f]) =>
              LET before == caches[flow[f].cacheName]
                  after == caches'[flow[f].cacheName]
              IN \A i \in matchedBy(f, before) :
                    ~hasKey(after, before[i].request) =>
                        \A j \in matchedBy(f, after) :
                            after[j].cachedAt >= before[i].cachedAt]_vars

sweeping(f) == flow[f].pc \in {"keys", "match", "evict"}

\* C13: eviction passes on one partition are serialized: never are two
\* manageCacheSize sweeps of the same cache in progress together.
C13_SweepsSerialized ==
    \A f, g \in Flows :
        (f # g /\ sweeping(f) /\ sweeping(g)) =>
            flow[f].cacheName # flow[g].cacheName

-----------------------------------------------------------------------------
(* Claims about the service worker's fetch handling (SpecSW, SpecSWFair) *)

inProgress == sw.pc \notin {"idle", "settled"}

\* C8: every image request the worker handles eventually completes: the
\* promise returned by handleFetch settles, whatever the network does and
\* whether or not a client answers the worker's messages.
C8_HandleFetchSettles == inProgress ~> (sw.pc = "settled")

fetchFailed == sw.failure \in {"error", "status", "abort"}

\* a step of the fallback chain that produced a response
succeeded(step) == (step.step = "cdn" /\ step.ok) \/ step.step = "cached"

rank(step) ==
    CASE step.step = "cdn" -> 1
      [] step.step = "cached" -> 2
      [] step.step = "placeholder" -> 3

\* C9: after a failed image fetch (error, non-success status or abort) the
\* fallback chain runs in the order alternate CDN, any cached entry,
\* placeholder and stops at the first success: no step follows a step that
\* produced a response, and the placeholder is returned only if no earlier
\* step produced one.
C9_FallbackChainStopsAtFirstSuccess ==
    fetchFailed =>
        /\ \A i, j \in DOMAIN sw.steps :
              i < j => /\ rank(sw.steps[i]) <= rank(sw.steps[j])
                       /\ ~succeeded(sw.steps[i])
        /\ (sw.pc = "settled" /\ sw.response.kind = "placeholder") =>
              /\ \A i \in DOMAIN sw.steps : ~succeeded(sw.steps[i])
              /\ firstCacheWith(caches, sw.url) = 0

\* the alternate-CDN requests made for the current fetch
attempts == SelectSeq(sw.steps, LAMBDA step : step.step = "cdn")
              \o (IF sw.pc \in {"fallbackFetch"}
                  THEN <<[step |-> "cdn", domain |-> Head(sw.domains), ok |-> FALSE]>>
                  ELSE <<>>)

indexOf(domain) == CHOOSE i \in DOMAIN CDN_DOMAINS : CDN_DOMAINS[i] = domain

\* C10 (as stated): for one failed image fetch the worker makes at most one
\* fallback attempt to an alternate CDN.
C10_AtMostOneFallbackAttempt == Len(attempts) <= 1

\* C10 (amended): for one failed image fetch the worker makes at most one
\* attempt per alternate CDN domain, in the order of CDN_DOMAINS and never to
\* a domain contained in the request's hostname: at most three further
\* requests, at most two when the hostname contains a CDN domain.
C10_OneAttemptPerAlternateDomain ==
    sw.pc # "idle" =>
        /\ Len(attempts) <= Len(CDN_DOMAINS)
        /\ \A i \in DOMAIN attempts :
              /\ attempts[i].domain \in {CDN_DOMAINS[k] : k \in DOMAIN CDN_DOMAINS}
              /\ ~includes(sw.url, attempts[i].domain)
        /\ \A i, j \in DOMAIN attempts :
              i < j => indexOf(attempts[i].domain) < indexOf(attempts[j].domain)
        /\ (\E k \in DOMAIN CDN_DOMAINS : includes(sw.url, CDN_DOMAINS[k])) =>
              Len(attempts) <= Len(CDN_DOMAINS) - 1

\* a failed fetch of a CDN-hosted image after which both other CDN domains
\* were tried
C10_Witness ==
    /\ fetchFailed
    /\ sw.url = "cdn.example.com"
    /\ sw.pc = "handleImageFallback"
    /\ Len(attempts) = 2

\* C11: a cache storage failure is treated as a cache miss: when the network
\* fetch of an image succeeded and the cache write (or the size pass after it)
\* fails, the worker returns the fetched response and does not enter the
\* fallback chain.
C11_StorageFailureReturnsFetched ==
    [][(sw.pc = "cacheResponse" /\ sw' # sw) =>
          (sw'.pc = "settled" /\ sw'.response.kind = "network")]_vars

C14_TimeoutOfReportedClass ==
    [][(sw.timeoutId = "none" /\ sw'.timeoutId = "armed"
            /\ lastReported # "none") =>
          sw'.timeout = getTimeoutForConnection(lastReported)]_vars

-----------------------------------------------------------------------------
(* Claims about experiment assignment (SpecAB) *)

\* a page load of a user who loaded the page before and kept the user id
sameUserLoadsAgain ==
    /\ sessions' = sessions + 1
    /\ abTesting.userId # "null"
    /\ abTesting'.userId = abTesting.userId

\* C15: the experiment assignment is a deterministic function of the stable
\* user id and persists across sessions: for the same user id every session
\* uses the same variant of each experiment, including the format-preference
\* and compression-strategy variants that format and quality selection
\* consult (this.abTestVariant).
C15_SameVariantsEverySession ==
    [][sameUserLoadsAgain =>
          /\ abTesting'.userAssignments = abTesting.userAssignments
          /\ abTestVariant' = abTestVariant]_vars

-----------------------------------------------------------------------------
(* Claims about expiry (SpecSWAged) *)

\* at time t a stamped entry of the cache named cacheName is older than the
\* max age of its partition
tooOldAt(entry, cacheName, t) ==
    entry.cachedAt # 0 /\ t - entry.cachedAt > CACHE_EXPIRY[Head(cacheName)]

tooOld(entry, cacheName) == tooOldAt(entry, cacheName, now)

\* the lookup of handleImageRequest finds the request in the images cache
\* with an age above the max age
lookupFindsTooOld ==
    /\ sw.pc = "handleImageRequest"
    /\ ~hasKey(caches[CACHE_NAMES.optimized], sw.url)
    /\ hasKey(caches[CACHE_NAMES.images], sw.url)
    /\ tooOld(entryOf(caches[CACHE_NAMES.images], sw.url), CACHE_NAMES.images)

\* C16: the lookup path never serves an entry whose age exceeds its max age
\* and never deletes an entry: an age-expired entry is treated like a missing
\* one and the request goes on to the network.
C16_ExpiredEntryGoesToNetwork ==
    [][(lookupFindsTooOld /\ sw' # sw) =>
          /\ sw'.timeoutId = "armed"
          /\ sw'.pc \in {"fetch", "getFormatSupport"}
          /\ caches' = caches]_vars

\* C17: an entry is judged expired exactly when its age exceeds the max age
\* of the partition that holds it.
C17_ExpiredIffOlderThanPartitionMaxAge ==
    \A n \in CurrentCaches :
        \A i \in DOMAIN caches[n] :
            caches[n][i].cachedAt # 0 =>
                isExpired(caches[n][i]) =
                    (IF tooOld(caches[n][i], n) THEN "true" ELSE "false")

\* C18: an entry older than its partition's max age is evicted by the next
\* eviction pass on that partition, also when the partition is under its
\* size budget.
C18_PassEvictsTooOld ==
    [][(sw.pc \in {"cacheResponse", "fallbackCacheResponse"}
            /\ sw'.pc = "settled") =>
          \A i \in DOMAIN caches'[CACHE_NAMES.images] :
              ~tooOldAt(caches'[CACHE_NAMES.images][i], CACHE_NAMES.images,
                        now')]_vars

-----------------------------------------------------------------------------
(* Claims about the formats the service worker requests (SpecSW) *)

\* C19: every format put into an image request is one of avif, webp, jpg and
\* a format whose support was established for this runtime: avif or webp is
\* never chosen without a successful probe of it (here: without a client
\* having answered that it is supported).
C19_FormatSupportedAndProbed ==
    sw.format # "none" =>
        /\ sw.format \in Formats
        /\ sw.format \in {"avif", "webp"} =>
              (sw.formatFrom = "client" /\ sw.formatSupport[sw.format])

\* C20: when format support cannot be determined (the worker has no client
\* to ask), the most conservative capability is assumed: avif=false,
\* webp=false, jpg=true.
C20_ConservativeDefault ==
    sw.formatFrom = "default" =>
        sw.formatSupport = [avif |-> FALSE, webp |-> FALSE, jpg |-> TRUE]

-----------------------------------------------------------------------------
(* Claims about the A/B event queue and the persisted log (SpecABQueue) *)

\* C31: no tracked event is lost: every event that is not part of a
\* delivered batch is still in dataQueue or in a send in flight (so a failed
\* send has put its events back).
C31_NoTrackedEventLost ==
    \A eventData \in 1..tracked :
        \/ eventData \in delivered
        \/ eventData \in eventsOf(abTesting.dataQueue)
        \/ \E batch \in sends : eventData \in eventsOf(batch)

\* C32: the events in dataQueue are in the order in which they were tracked,
\* whatever the interleaving of trackEvent calls and failing sends.
C32_QueueInTrackingOrder ==
    \A i, j \in DOMAIN abTesting.dataQueue :
        i < j => abTesting.dataQueue[i] < abTesting.dataQueue[j]

-----------------------------------------------------------------------------
(* Claims about the experiment assignments (SpecAssign) *)

\* the step of a page load (init) or of a later assignUserToExperiments call
assigns == sessions' # sessions \/ (calls' # calls /\ tracked' = tracked)

\* the assignments assignUserToExperiments starts from: the stored ones at a
\* page load, those of the instance at a later call
heldBefore ==
    IF sessions' # sessions THEN localStorage.ab_test_assignments
    ELSE abTesting.userAssignments

\* C34: after initialisation, and after assignUserToExperiments following any
\* forceVariant and removeFromExperiment calls, every configured experiment
\* has an assignment, every assignment is a variant defined for its
\* experiment, and an assignment that existed (also a stored one) is kept.
C34_AssignmentsCompleteValidStable ==
    [][assigns =>
          \A e \in ABExperimentIds :
              /\ abTesting'.userAssignments[e] # "undefined"
              /\ \E i \in DOMAIN variantsOf(e) :
                    abTesting'.userAssignments[e] = variantsOf(e)[i].id
              /\ heldBefore[e] # "undefined" =>
                    abTesting'.userAssignments[e] = heldBefore[e]]_vars

-----------------------------------------------------------------------------
(* Claims about the performance monitor (SpecPM) *)

\* the entries a metrics map holds
metricEntries(map) == UNION {{map[k][i] : i \in DOMAIN map[k]} : k \in MetricNames}

\* the entries an image-metrics map holds
imageEntries(map) == {map[src] : src \in ImageSources} \ {0}

\* the entries this step removes from metrics and imageMetrics
cleared ==
    (metricEntries(metrics) \ metricEntries(metrics')) \cup
    (imageEntries(imageMetrics) \ imageEntries(imageMetrics'))

\* C33: sendMetrics clears only metrics that were sent: an entry recorded
\* while a send awaits its fetch is not removed by the clearMetrics that
\* follows that send, and a send that throws leaves metrics and imageMetrics
\* unchanged.
C33_ClearsOnlySentMetrics ==
    [][cleared # {} =>
          \/ reports' = reports
          \/ \E i \in DOMAIN reports :
                /\ reports' = removeAt(reports, i)
                /\ cleared \subseteq metricEntries(reports[i].metrics) \cup
                                      imageEntries(reports[i].imageMetrics)]_vars

-----------------------------------------------------------------------------
(* Claims about the activation of the service worker (SpecActivate) *)

\* C36: activation changes only old caches: when cleanupOldCaches has
\* returned, every cache whose name is not one of the four current-version
\* names is deleted, and no step of it changes a current-version cache or
\* its entries.
C36_CleanupDeletesOnlyOldCaches ==
    /\ [](activation.pc = "done" => DOMAIN caches \subseteq CurrentCaches)
    /\ [][\A cacheName \in CurrentCaches \cap DOMAIN caches :
             /\ cacheName \in DOMAIN caches'
             /\ caches'[cacheName] = caches[cacheName]]_vars

\* cleanupOldCaches has returned after deleting the caches of an old
\* version next to a current-version cache that holds an entry
C36_Witness ==
    /\ activation.pc = "done"
    /\ activation.cacheNames \ CurrentCaches # {}
    /\ \E cacheName \in CurrentCaches : caches[cacheName] # <<>>

-----------------------------------------------------------------------------
(* Claims about the cache lookup of an image request (SpecSW) *)

\* the lookup of handleImageRequest finds, in the partition named, an entry
\* that is not older than the max age of the partition
lookupFindsFresh(cacheName) ==
    /\ sw.pc = "handleImageRequest"
    /\ hasKey(caches[cacheName], sw.url)
    /\ ~tooOld(entryOf(caches[cacheName], sw.url), cacheName)

====
